---- MODULE Spec2Model ----
(***************************************************************************)
(* State-machine model of the return-reconciliation and time-sliced cache  *)
(* engine of the fund dashboard (components/realtime_heatmap.py,           *)
(* database/database.py, components/daily_trading_stats.py,                *)
(* components/product_returns.py, components/futures_data_reader.py,       *)
(* components/holdings_updater.py, components/ruixing_data_reader.py).     *)
(*                                                                         *)
(* Time is counted in minutes of local wall-clock time since Monday 00:00. *)
(* Several specifications share the module:                                *)
(*   Spec           the cache: requests running                            *)
(*                  get_product_data_with_cache step by step, interleaved  *)
(*                  with the clock and file drops;                         *)
(*   SpecLedger     the cash_flows table under add/delete/delete-all and   *)
(*                  the net-flow query;                                    *)
(*   SpecReturn     the return calculators applied to bounded inputs;      *)
(*   SpecSlot       get_time_slot and get_cache_key called twice as the    *)
(*                  clock moves;                                           *)
(*   SpecLocator    the file lookups inside one date folder;               *)
(*   SpecAggregate  the join of the equity and the futures rows;           *)
(*   SpecBucket     the lookup of the files of a target time;              *)
(*   SpecBatch      the batch update of the holdings;                      *)
(*   SpecHeader     the header matching of the asset readers;              *)
(*   SpecSnapshot   the monetary values of an assembled snapshot;          *)
(*   SpecMissing    the locators on absent paths;                          *)
(*   SpecPurge      the purge of old cache entries at start;               *)
(*   SpecCoherence  the cached payload against its inputs;                 *)
(*   SpecDateKey    the date keys of the ledger lookups;                   *)
(*   SpecFutures    the futures export selected for a date.                *)
(***************************************************************************)
EXTENDS Integers, Sequences, FiniteSets, TLC

VARIABLES
    now,      \* local wall clock (datetime.now()), minutes since Monday 00:00
    ticks,    \* how many times the clock advanced (bounds the run)
    calls,    \* how many calls of get_product_data_with_cache started (bounds the run)
    tz,       \* offset of local time from UTC in minutes (CURRENT_TIMESTAMP is UTC)
    files,    \* positions-export files on disk under DATA_PATHS[data_source]
    cache,    \* rows of table heatmap_cache
    pc,       \* per request: position inside get_product_data_with_cache
    prod,     \* per request: product_name argument
    cres,     \* per request: cache_result fetched by db.get_cache_data
    result,   \* per request: result of calculate_product_data_realtime
    ret,      \* per request: value returned to the caller
    ledger,   \* rows of table cash_flows
    lastOp,   \* the last ledger call and its outcome
    inp,      \* inputs of the function under study (return calculators, locator, readers)
    out       \* what the function under study produced

cacheVars  == <<now, ticks, calls, tz, files, cache, pc, prod, cres, result, ret>>
ledgerVars == <<ledger, lastOp>>
returnVars == <<inp, out>>
vars == <<now, ticks, calls, tz, files, cache, pc, prod, cres, result, ret,
          ledger, lastOp, inp, out>>

None == "None"
\* the empty dict {} returned by a failed compute, and "no row" of a query
EmptyDict == [empty |-> TRUE]
NoRow == [missing |-> TRUE]

-----------------------------------------------------------------------------
(* Bounds of the model *)

MaxTicks == 2
TickMinutes == 10
MaxFiles == 2
MaxCalls == 2
MaxAsset == 3
MaxFlow == 2

(* Program constants *)

CacheTtlMinutes == 15
DayMinutes == 1440
HourMinutes == 60
SlotMinutes == 15
TradingOpen == 570
TradingClose == 900
Saturday == 5

Requests == {1, 2}
Products == {"P1"}
DATA_PATHS == {"live"}
ProductIds == {"acctA"}

\* Friday 14:50 (inside trading hours, about to cross 15:00) and Saturday
\* 10:00 (outside trading hours, at the start of an hourly slot)
StartTimes == {4 * DayMinutes + 14 * HourMinutes + 50,
               5 * DayMinutes + 10 * HourMinutes}
\* the host's offset from UTC: China Standard Time
TimeZones == {480}

-----------------------------------------------------------------------------
(* Clock helpers: realtime_heatmap.py get_time_slot / is_trading_hours *)

weekday(t) == (t \div DayMinutes) % 7
timeOfDay(t) == t % DayMinutes

\* variant: the weekend test left out
is_trading_hours_every_day(dt) ==
    TradingOpen <= timeOfDay(dt) /\ timeOfDay(dt) <= TradingClose

is_trading_hours(dt) ==
    IF weekday(dt) >= Saturday THEN FALSE
    ELSE TradingOpen <= timeOfDay(dt) /\ timeOfDay(dt) <= TradingClose

\* now.replace(minute=..., second=0, microsecond=0)
floor_slot(t) ==
    IF is_trading_hours(t)
    THEN t - (t % HourMinutes) + ((t % HourMinutes) \div SlotMinutes) * SlotMinutes
    ELSE t - (t % HourMinutes)

\* time_slot.strftime('%Y-%m-%d_%H:%M'): the label is <<day, hour, minute>>
strftime(t) == <<t \div DayMinutes, timeOfDay(t) \div HourMinutes, t % HourMinutes>>

get_time_slot(t) == strftime(floor_slot(t))

get_cache_key(product_name, data_source, time_slot) ==
    <<product_name, data_source, time_slot>>

-----------------------------------------------------------------------------
(* Source locator for the positions export: realtime_heatmap.py *)

\* the date folders that hold at least one matching file, newest first
latest_date_folder(fs) == CHOOSE d \in {f.folder : f \in fs} :
                              \A e \in {f.folder : f \in fs} : e <= d

\* per product identifier, the file with the greatest embedded timestamp
\* among the files of the newest date folder
get_latest_holding_files(fs) ==
    IF fs = {} THEN {}
    ELSE LET inFolder == {f \in fs : f.folder = latest_date_folder(fs)}
         IN  {f \in inFolder :
                 \A g \in inFolder : g.pid = f.pid => g.ts <= f.ts}

SetMax(S) == CHOOSE m \in S : \A x \in S : x <= m

\* the greatest os.path.getmtime over the located files; datetime.now()
\* when nothing is located
get_latest_data_file_time(fs, t) ==
    LET file_info == get_latest_holding_files(fs)
    IN  IF file_info = {} THEN t
        ELSE SetMax({f.mtime : f \in file_info})

-----------------------------------------------------------------------------
(* Cache table heatmap_cache: database.py *)

\* variant: the query without its expires_at condition
get_cache_data_any_age(rows, cache_key, t) ==
    LET hit == {r \in rows : r.cache_key = cache_key}
    IN  IF hit = {} THEN NoRow ELSE CHOOSE r \in hit : TRUE

\* SELECT ... WHERE cache_key = ? AND expires_at > now
get_cache_data(rows, cache_key, t) ==
    LET hit == {r \in rows : r.cache_key = cache_key /\ r.expires_at > t}
    IN  IF hit = {} THEN NoRow ELSE CHOOSE r \in hit : TRUE

\* variant: a plain INSERT into a table without the UNIQUE cache_key
save_cache_data_insert(rows, cache_key, product_name, data_source, time_slot, data, data_file_time, t, offset) ==
    rows \cup
    {[cache_key      |-> cache_key,
      product_name   |-> product_name,
      data_source    |-> data_source,
      time_slot      |-> time_slot,
      cache_data     |-> data,
      data_file_time |-> data_file_time,
      created_at     |-> t - offset,
      expires_at     |-> t + CacheTtlMinutes]}

\* INSERT OR REPLACE on the UNIQUE cache_key; created_at defaults to
\* CURRENT_TIMESTAMP (UTC), expires_at is local now + 15 minutes
save_cache_data(rows, cache_key, product_name, data_source, time_slot, data, data_file_time, t, offset) ==
    {r \in rows : r.cache_key # cache_key} \cup
    {[cache_key      |-> cache_key,
      product_name   |-> product_name,
      data_source    |-> data_source,
      time_slot      |-> time_slot,
      cache_data     |-> data,
      data_file_time |-> data_file_time,
      created_at     |-> t - offset,
      expires_at     |-> t + CacheTtlMinutes]}

-----------------------------------------------------------------------------
(* calculate_product_data_realtime: realtime_heatmap.py *)

\* {} when no file is located or no located file holds the product;
\* otherwise the payload built from the located files, all of which were
\* read: product_data stands for their contents, identified by the freshest
\* modification time among them
calculate_product_data_realtime(fs, product_name, t) ==
    LET file_info == get_latest_holding_files(fs)
        all_data  == UNION {f.prods : f \in file_info}
    IN  IF file_info = {} THEN EmptyDict
        ELSE IF product_name \notin all_data THEN EmptyDict
        ELSE [product_data |-> SetMax({f.mtime : f \in file_info}),
              calculation_timestamp |-> t]

-----------------------------------------------------------------------------------------------------------------------------------------------------
(* Specification Spec: the time-sliced cache *)

NoRet == [kind |-> "none", data |-> EmptyDict]

\* what a positions-export file holds: rows of the product, or of none
FileContents == {{}, Products}

NoOp == [op |-> "none"]
NoInput == [given |-> FALSE]
NoOutput == [path |-> "none"]

InitLedgerIdle == ledger = {} /\ lastOp = NoOp
InitReturnIdle == inp = NoInput /\ out = NoOutput

Init ==
    /\ now \in StartTimes
    /\ ticks = 0
    /\ calls = 0
    /\ tz \in TimeZones
    /\ files = {}
    /\ cache = {}
    /\ pc = [r \in Requests |-> "idle"]
    /\ prod = [r \in Requests |-> None]
    /\ cres = [r \in Requests |-> NoRow]
    /\ result = [r \in Requests |-> EmptyDict]
    /\ ret = [r \in Requests |-> NoRet]
    /\ InitLedgerIdle
    /\ InitReturnIdle

\* the wall clock advances
Tick ==
    /\ ticks < MaxTicks
    /\ now' = now + TickMinutes
    /\ ticks' = ticks + 1
    /\ UNCHANGED <<calls, tz, files, cache, pc, prod, cres, result, ret>>
    /\ UNCHANGED <<ledgerVars, returnVars>>

\* the export job drops (or rewrites) a positions-export file in today's
\* date folder; its name carries the export time, its mtime is the drop time
FileArrive ==
    /\ \E pid \in ProductIds, prods \in FileContents :
          LET f == [pid |-> pid, ts |-> now, mtime |-> now,
                    folder |-> now \div DayMinutes, prods |-> prods]
              kept == {g \in files : ~(g.pid = f.pid /\ g.ts = f.ts /\ g.folder = f.folder)}
          IN  /\ f \notin files
              /\ Cardinality(kept) < MaxFiles
              /\ files' = kept \cup {f}
    /\ UNCHANGED <<now, ticks, calls, tz, cache, pc, prod, cres, result, ret>>
    /\ UNCHANGED <<ledgerVars, returnVars>>

\* a caller enters get_product_data_with_cache(product_name, data_source, db)
Call(r) ==
    /\ pc[r] = "idle"
    /\ calls < MaxCalls
    /\ calls' = calls + 1
    /\ \E p \in Products : prod' = [prod EXCEPT ![r] = p]
    /\ pc' = [pc EXCEPT ![r] = "should_use_cache"]
    /\ UNCHANGED <<now, ticks, tz, files, cache, cres, result, ret>>
    /\ UNCHANGED <<ledgerVars, returnVars>>

\* should_use_cache, lines 115-121: time slot, key, db.get_cache_data
ShouldUseCacheRead(r) ==
    /\ pc[r] = "should_use_cache"
    /\ LET cache_key == get_cache_key(prod[r], "live", get_time_slot(now))
           cache_result == get_cache_data(cache, cache_key, now)
       IN  /\ cres' = [cres EXCEPT ![r] = cache_result]
           /\ pc' = [pc EXCEPT ![r] =
                        IF cache_result = NoRow THEN "calculate" ELSE "check_file_time"]
    /\ UNCHANGED <<now, ticks, calls, tz, files, cache, prod, result, ret>>
    /\ UNCHANGED <<ledgerVars, returnVars>>

\* variant: the comparison the wrong way round
file_is_newer_reversed(latest_file_time, cache_file_time) ==
    latest_file_time < cache_file_time

\* the comparison of should_use_cache, line 127 (save_cache_data always
\* stores a data_file_time, so cache_file_time is never empty)
file_is_newer(latest_file_time, cache_file_time) ==
    latest_file_time > cache_file_time

\* should_use_cache, lines 123-130, and the hit return of
\* get_product_data_with_cache, lines 238-239
ShouldUseCacheFileTime(r) ==
    /\ pc[r] = "check_file_time"
    /\ LET latest_file_time == get_latest_data_file_time(files, now)
       IN  IF file_is_newer(latest_file_time, cres[r].data_file_time)
           THEN /\ pc' = [pc EXCEPT ![r] = "calculate"]
                /\ ret' = ret
           ELSE /\ pc' = [pc EXCEPT ![r] = "done"]
                /\ ret' = [ret EXCEPT ![r] =
                              [kind |-> "hit", data |-> cres[r].cache_data]]
    /\ UNCHANGED <<now, ticks, calls, tz, files, cache, prod, cres, result>>
    /\ UNCHANGED <<ledgerVars, returnVars>>

\* variant: the result is saved whatever it is
should_save_always(res) == TRUE

\* get_product_data_with_cache, line 245: "if result:" (an empty dict is falsy)
should_save(res) == res # EmptyDict

\* get_product_data_with_cache, lines 242-245 and 252: the compute step (an
\* exception inside it yields {} like a missing product); a falsy result is
\* returned without touching the cache
Calculate(r) ==
    /\ pc[r] = "calculate"
    /\ \E raised \in BOOLEAN :
          LET res == IF raised THEN EmptyDict
                     ELSE calculate_product_data_realtime(files, prod[r], now)
          IN  /\ result' = [result EXCEPT ![r] = res]
              /\ IF ~should_save(res)
                 THEN /\ pc' = [pc EXCEPT ![r] = "done"]
                      /\ ret' = [ret EXCEPT ![r] = [kind |-> "failed", data |-> res]]
                 ELSE /\ pc' = [pc EXCEPT ![r] = "save"]
                      /\ ret' = ret
    /\ UNCHANGED <<now, ticks, calls, tz, files, cache, prod, cres>>
    /\ UNCHANGED <<ledgerVars, returnVars>>

\* get_product_data_with_cache, lines 245-252: time slot, key and file time
\* are taken again, then db.save_cache_data (which swallows its own errors)
Save(r) ==
    /\ pc[r] = "save"
    /\ \E saved \in BOOLEAN :
          LET time_slot == get_time_slot(now)
              cache_key == get_cache_key(prod[r], "live", time_slot)
              data_file_time == get_latest_data_file_time(files, now)
          IN  cache' = IF saved
                       THEN save_cache_data(cache, cache_key, prod[r], "live", time_slot,
                                            result[r], data_file_time, now, tz)
                       ELSE cache
    /\ pc' = [pc EXCEPT ![r] = "done"]
    /\ ret' = [ret EXCEPT ![r] = [kind |-> "computed", data |-> result[r]]]
    /\ UNCHANGED <<now, ticks, calls, tz, files, prod, cres, result>>
    /\ UNCHANGED <<ledgerVars, returnVars>>

\* the caller takes the returned value; the call's locals are gone
Return(r) ==
    /\ pc[r] = "done"
    /\ pc' = [pc EXCEPT ![r] = "idle"]
    /\ prod' = [prod EXCEPT ![r] = None]
    /\ cres' = [cres EXCEPT ![r] = NoRow]
    /\ result' = [result EXCEPT ![r] = EmptyDict]
    /\ ret' = [ret EXCEPT ![r] = NoRet]
    /\ UNCHANGED <<now, ticks, calls, tz, files, cache>>
    /\ UNCHANGED <<ledgerVars, returnVars>>

Next ==
    \/ Tick
    \/ FileArrive
    \/ \E r \in Requests : Call(r)
    \/ \E r \in Requests : ShouldUseCacheRead(r)
    \/ \E r \in Requests : ShouldUseCacheFileTime(r)
    \/ \E r \in Requests : Calculate(r)
    \/ \E r \in Requests : Save(r)
    \/ \E r \in Requests : Return(r)

Spec == Init /\ [][Next]_vars

-----------------------------------------------------------------------------
(* Cash-flow ledger, table cash_flows: database.py *)

Units == {"U1", "U2"}
Dates == {"2025-07-07", "2025-07-08"}
\* the (unit, date) pairs the calls are made with
UnitDates == {<<"U1", "2025-07-07">>, <<"U1", "2025-07-08">>, <<"U2", "2025-07-08">>}
FlowTypes == {"inflow", "outflow"}
Amounts == {100, 150}

RECURSIVE SumAmounts(_)
SumAmounts(rows) ==
    IF rows = {} THEN 0
    ELSE LET x == CHOOSE x \in rows : TRUE
         IN  x.amount + SumAmounts(rows \ {x})

SameKey(row, unit_name, date, flow_type) ==
    row.unit_name = unit_name /\ row.date = date /\ row.flow_type = flow_type

\* variant: a plain INSERT into a table without the UNIQUE constraint
add_cash_flow_insert(rows, unit_name, date, flow_type, amount) ==
    rows \cup
    {[unit_name |-> unit_name, date |-> date, flow_type |-> flow_type,
      amount |-> amount]}

\* variant: the new amount is added to the amount already stored
add_cash_flow_accumulate(rows, unit_name, date, flow_type, amount) ==
    {row \in rows : ~SameKey(row, unit_name, date, flow_type)} \cup
    {[unit_name |-> unit_name, date |-> date, flow_type |-> flow_type,
      amount |-> amount +
                 SumAmounts({row \in rows : SameKey(row, unit_name, date, flow_type)})]}

\* INSERT OR REPLACE under UNIQUE (unit_name, date, flow_type): the row in
\* conflict is deleted and the new one inserted (the columns id, note and
\* created_at, which no query of the engine reads, are left out)
add_cash_flow(rows, unit_name, date, flow_type, amount) ==
    {row \in rows : ~SameKey(row, unit_name, date, flow_type)} \cup
    {[unit_name |-> unit_name, date |-> date, flow_type |-> flow_type,
      amount |-> amount]}

\* variant: the amount is not part of the WHERE clause
delete_cash_flow_any_amount(rows, unit_name, date, flow_type, amount) ==
    {row \in rows : ~SameKey(row, unit_name, date, flow_type)}

\* DELETE ... WHERE unit_name = ? AND date = ? AND flow_type = ? AND amount = ?
delete_cash_flow(rows, unit_name, date, flow_type, amount) ==
    {row \in rows : ~(SameKey(row, unit_name, date, flow_type) /\ row.amount = amount)}

\* DELETE FROM cash_flows WHERE unit_name = ?
delete_all_cash_flows(rows, unit_name) ==
    {row \in rows : row.unit_name # unit_name}

\* variant: the date is not part of the WHERE clauses
get_cash_flow_by_date_any_date(rows, unit_name, date) ==
    LET inflow  == SumAmounts({row \in rows : row.unit_name = unit_name /\ row.flow_type = "inflow"})
        outflow == SumAmounts({row \in rows : row.unit_name = unit_name /\ row.flow_type = "outflow"})
    IN  inflow - outflow

\* COALESCE(SUM(amount), 0) of the inflow rows minus that of the outflow rows
get_cash_flow_by_date(rows, unit_name, date) ==
    LET inflow  == SumAmounts({row \in rows : SameKey(row, unit_name, date, "inflow")})
        outflow == SumAmounts({row \in rows : SameKey(row, unit_name, date, "outflow")})
    IN  inflow - outflow

(* Specification SpecLedger: calls on the ledger; a call whose statement    *)
(* raises (the except branch) rolls back and returns False                  *)

InitCacheIdle ==
    /\ now = 0 /\ ticks = 0 /\ calls = 0 /\ tz = 0
    /\ files = {} /\ cache = {}
    /\ pc = [r \in Requests |-> "idle"]
    /\ prod = [r \in Requests |-> None]
    /\ cres = [r \in Requests |-> NoRow]
    /\ result = [r \in Requests |-> EmptyDict]
    /\ ret = [r \in Requests |-> NoRet]

InitLedger ==
    /\ InitLedgerIdle
    /\ InitCacheIdle
    /\ InitReturnIdle

AddCashFlow ==
    /\ \E ud \in UnitDates, t \in FlowTypes, a \in Amounts, raises \in BOOLEAN :
       LET u == ud[1]
           d == ud[2]
       IN /\ ledger' = IF raises THEN ledger ELSE add_cash_flow(ledger, u, d, t, a)
          /\ lastOp' = [op |-> "add_cash_flow", unit_name |-> u, date |-> d,
                        flow_type |-> t, amount |-> a, returned |-> ~raises,
                        before |-> {row.amount : row \in
                                       {x \in ledger : SameKey(x, u, d, t)}}]
    /\ UNCHANGED <<cacheVars, returnVars>>

DeleteCashFlow ==
    /\ \E ud \in UnitDates, t \in FlowTypes, a \in Amounts, raises \in BOOLEAN :
       LET u == ud[1]
           d == ud[2]
       IN /\ ledger' = IF raises THEN ledger ELSE delete_cash_flow(ledger, u, d, t, a)
          /\ lastOp' = [op |-> "delete_cash_flow", unit_name |-> u, date |-> d,
                        flow_type |-> t, amount |-> a, returned |-> ~raises,
                        before |-> {row.amount : row \in
                                       {x \in ledger : SameKey(x, u, d, t)}}]
    /\ UNCHANGED <<cacheVars, returnVars>>

DeleteAllCashFlows ==
    /\ \E u \in Units, raises \in BOOLEAN :
          /\ ledger' = IF raises THEN ledger ELSE delete_all_cash_flows(ledger, u)
          /\ lastOp' = [op |-> "delete_all_cash_flows", unit_name |-> u,
                        returned |-> (~raises /\ \E row \in ledger : row.unit_name = u)]
    /\ UNCHANGED <<cacheVars, returnVars>>

\* a reader (the return calculators, the daily-stats recalculation) asks for
\* the net flow of a unit on a date; the table is not written
GetCashFlowByDate ==
    /\ \E u \in Units, d \in Dates :
          lastOp' = [op |-> "get_cash_flow_by_date", unit_name |-> u, date |-> d,
                     value |-> get_cash_flow_by_date(ledger, u, d)]
    /\ UNCHANGED ledger
    /\ UNCHANGED <<cacheVars, returnVars>>

NextLedger ==
    \/ AddCashFlow
    \/ DeleteCashFlow
    \/ DeleteAllCashFlows
    \/ GetCashFlowByDate

SpecLedger == InitLedger /\ [][NextLedger]_vars

-----------------------------------------------------------------------------
(* Return calculators: realtime_heatmap.py, daily_trading_stats.py,        *)
(* product_returns.py.  Amounts are exact; a percentage is the reduced     *)
(* fraction num/den, and a float division by zero yields inf, -inf or nan  *)
(* as numpy and pandas do.                                                 *)

Abs(x) == IF x < 0 THEN 0 - x ELSE x

RECURSIVE Gcd(_, _)
Gcd(a, b) == IF b = 0 THEN a ELSE Gcd(b, a % b)

Pct(n, d) ==
    LET g == Gcd(Abs(n), Abs(d))
        sgn == IF d < 0 THEN 0 - 1 ELSE 1
    IN  [kind |-> "pct", num |-> (sgn * n) \div g, den |-> (sgn * d) \div g]

NoneResult == [kind |-> "None"]
Zero == Pct(0, 1)

\* n / d on numpy floats
float_div(n, d) ==
    IF d # 0 THEN Pct(n, d)
    ELSE IF n > 0 THEN [kind |-> "inf"]
    ELSE IF n < 0 THEN [kind |-> "-inf"]
    ELSE [kind |-> "nan"]

\* variant: the guard lets a zero base through
get_product_return_from_holdings_lt(today_total_asset, yesterday_total_asset, total_inflow, total_outflow) ==
    LET raw_return == today_total_asset - yesterday_total_asset
        adjusted_return == raw_return + total_outflow - total_inflow
    IN  IF yesterday_total_asset < 0 THEN NoneResult
        ELSE float_div(adjusted_return * 100,
                       yesterday_total_asset - total_outflow + total_inflow)

\* get_product_return_from_holdings, lines 1182-1205
get_product_return_from_holdings(today_total_asset, yesterday_total_asset, total_inflow, total_outflow) ==
    LET raw_return == today_total_asset - yesterday_total_asset
        adjusted_return == raw_return + total_outflow - total_inflow
    IN  IF yesterday_total_asset <= 0 THEN NoneResult
        ELSE float_div(adjusted_return * 100,
                       yesterday_total_asset - total_outflow + total_inflow)

\* calculate_ruixing_return, lines 1410-1427
calculate_ruixing_return(today_total_asset, yesterday_total_asset, total_inflow, total_outflow) ==
    LET raw_return == today_total_asset - yesterday_total_asset
        adjusted_return == raw_return + total_outflow - total_inflow
    IN  IF yesterday_total_asset <= 0 THEN NoneResult
        ELSE float_div(adjusted_return * 100, yesterday_total_asset)

\* calculate_derived_values, lines 69-86: the asset return of a daily-stats
\* row; cash_flow is db.get_cash_flow_by_date, inflow minus outflow
calculate_derived_values(current_asset, prev_asset, cash_flow) ==
    LET adjusted_current_asset == current_asset - cash_flow
    IN  IF prev_asset # 0
        THEN IF prev_asset > 0
             THEN float_div((adjusted_current_asset - prev_asset) * 100, prev_asset)
             ELSE Zero
        ELSE Zero

\* calculate_simple_returns, line 138: (latest / previous - 1) * 100 on
\* pandas columns, with no guard on the base
calculate_simple_returns(latest, previous) ==
    float_div((latest - previous) * 100, previous)

(* Specification SpecReturn: each calculator applied to bounded inputs, in  *)
(* units of 10,000 yuan                                                     *)

TodayAssets == (0 .. MaxAsset) \cup {105}
YesterdayAssets == ((0 - 1) .. MaxAsset) \cup {100}
FlowTotals == (0 .. MaxFlow) \cup {4}

InitReturn ==
    /\ \E t \in TodayAssets, y \in YesterdayAssets, i \in FlowTotals, o \in FlowTotals :
          inp = [given |-> TRUE, today |-> t, yesterday |-> y,
                 inflow |-> i, outflow |-> o]
    /\ out = NoOutput
    /\ InitLedgerIdle
    /\ InitCacheIdle

ReturnFromHoldings ==
    /\ out = NoOutput
    /\ out' = [path |-> "get_product_return_from_holdings",
               value |-> get_product_return_from_holdings(
                             inp.today, inp.yesterday, inp.inflow, inp.outflow)]
    /\ UNCHANGED <<inp, cacheVars, ledgerVars>>

RuixingReturn ==
    /\ out = NoOutput
    /\ out' = [path |-> "calculate_ruixing_return",
               value |-> calculate_ruixing_return(
                             inp.today, inp.yesterday, inp.inflow, inp.outflow)]
    /\ UNCHANGED <<inp, cacheVars, ledgerVars>>

DerivedValues ==
    /\ out = NoOutput
    /\ out' = [path |-> "calculate_derived_values",
               value |-> calculate_derived_values(
                             inp.today, inp.yesterday, inp.inflow - inp.outflow)]
    /\ UNCHANGED <<inp, cacheVars, ledgerVars>>

SimpleReturns ==
    /\ out = NoOutput
    /\ out' = [path |-> "calculate_simple_returns",
               value |-> calculate_simple_returns(inp.today, inp.yesterday)]
    /\ UNCHANGED <<inp, cacheVars, ledgerVars>>

NextReturn ==
    \/ ReturnFromHoldings
    \/ RuixingReturn
    \/ DerivedValues
    \/ SimpleReturns

SpecReturn == InitReturn /\ [][NextReturn]_vars

-----------------------------------------------------------------------------
(* Properties of the time-sliced cache (specification Spec) *)

CurrentKey(r) == get_cache_key(prod[r], "live", get_time_slot(now))

\* the step in which request r returns a stored payload
ServesHit(r) == ret[r].kind # "hit" /\ ret'[r].kind = "hit"

\* C1 - cache freshness: whenever a call returns a stored payload, the
\* locator did not report a file time later than the data_file_time of the
\* entry it fetched; if it reports a later one the call goes on to recompute.
C1_CacheFreshness ==
    [][\A r \in Requests :
          /\ ServesHit(r) =>
                /\ ~(get_latest_data_file_time(files, now) > cres[r].data_file_time)
                /\ ret'[r].data = cres[r].cache_data
          /\ (/\ pc[r] = "check_file_time"
              /\ pc'[r] # "check_file_time"
              /\ get_latest_data_file_time(files, now) > cres[r].data_file_time)
             => (pc'[r] = "calculate" /\ ret'[r].kind # "hit")]_vars

\* an unexpired entry was fetched, a newer file is on disk, and the call
\* has gone on to recompute
C1_Witness ==
    \E r \in Requests :
        /\ pc[r] = "calculate"
        /\ cres[r] # NoRow
        /\ cres[r] \in cache
        /\ cres[r].expires_at > now
        /\ cres[r].cache_key = CurrentKey(r)
        /\ \E f \in files : f.mtime > cres[r].data_file_time

\* the window the documentation gives an entry written at local time t
DocumentedWindow(t) == IF is_trading_hours(t) THEN SlotMinutes ELSE HourMinutes

\* C2 - every stored entry has expires_at = created_at + window, the window
\* being 15 minutes for an entry written in trading hours and 60 minutes
\* otherwise (created_at, kept in UTC, is read as the local instant it names).
C2_ExpiryWindow ==
    \A row \in cache :
        row.expires_at = (row.created_at + tz) + DocumentedWindow(row.created_at + tz)

\* C3 - the data_file_time stored with an entry is the freshest file time
\* among the files its payload was computed from.
C3_SourceFileTime ==
    \A row \in cache : row.data_file_time = row.cache_data.product_data

\* C4 - a failed compute is never cached: the step that computes an empty
\* result leaves the cache unchanged and hands the empty result to the caller;
\* no call reaches the save step with an empty result and no stored entry
\* holds one.
C4_FailedComputeNotCached ==
    /\ [](\A row \in cache : row.cache_data # EmptyDict)
    /\ [](\A r \in Requests :
             /\ pc[r] = "save" => result[r] # EmptyDict
             /\ ret[r].kind = "failed" =>
                   (pc[r] = "done" /\ ret[r].data = EmptyDict /\ result[r] = EmptyDict))
    /\ [][\A r \in Requests :
             (pc[r] = "calculate" /\ result'[r] = EmptyDict /\ pc'[r] # "calculate")
             => (cache' = cache /\ pc'[r] = "done" /\ ret'[r].kind = "failed")]_vars

\* a compute failed while an entry for the same key is stored, and the
\* entry is untouched
C4_Witness ==
    \E r \in Requests :
        /\ ret[r].kind = "failed"
        /\ \E row \in cache : row.cache_key = CurrentKey(r)

\* C8 - expiry is evaluated when the cache is read: the read hands on a
\* row only if the row is stored under the current key with expires_at later
\* than the clock, any other read leads to a recompute, and a stored payload
\* is only ever returned from a row handed on that way.
C8_NoExpiredHit ==
    [][\A r \in Requests :
          /\ (pc[r] = "should_use_cache" /\ pc'[r] # "should_use_cache") =>
                IF \E row \in cache : row.cache_key = CurrentKey(r) /\ row.expires_at > now
                THEN /\ pc'[r] = "check_file_time"
                     /\ cres'[r] \in cache
                     /\ cres'[r].cache_key = CurrentKey(r)
                     /\ cres'[r].expires_at > now
                ELSE pc'[r] = "calculate" /\ cres'[r] = NoRow /\ ret'[r].kind # "hit"
          /\ ServesHit(r) =>
                (pc[r] = "check_file_time" /\ ret'[r].data = cres[r].cache_data)]_vars

\* an expired entry is still stored under the current key and the call
\* that read the cache is recomputing
C8_Witness ==
    \E r \in Requests :
        /\ pc[r] = "calculate"
        /\ cres[r] = NoRow
        /\ \E row \in cache : row.cache_key = CurrentKey(r) /\ row.expires_at <= now

\* C9 - last writer wins: no key ever has two rows, and a save that changes
\* the table leaves, for its key, the one row made of the writer's payload,
\* file time and expiry, all other rows being untouched.
C9_LastWriterWins ==
    /\ [](\A row1 \in cache : \A row2 \in cache :
             row1.cache_key = row2.cache_key => row1 = row2)
    /\ [][\A r \in Requests :
             (pc[r] = "save" /\ pc'[r] = "done" /\ cache' # cache) =>
                /\ {row \in cache' : row.cache_key # CurrentKey(r)} =
                   {row \in cache : row.cache_key # CurrentKey(r)}
                /\ \E w \in cache' :
                      /\ {row \in cache' : row.cache_key = CurrentKey(r)} = {w}
                      /\ w.cache_data = result[r]
                      /\ w.data_file_time = get_latest_data_file_time(files, now)
                      /\ w.expires_at = now + CacheTtlMinutes
                      /\ w.created_at = now - tz]_vars

\* two calls for the same key both computed, with different payloads, and
\* the table holds one row for the key, carrying one writer's payload
C9_Witness ==
    /\ pc[1] = "done" /\ pc[2] = "done"
    /\ ret[1].kind = "computed" /\ ret[2].kind = "computed"
    /\ prod[1] = prod[2]
    /\ ret[1].data # ret[2].data
    /\ \E w \in cache :
          /\ w.cache_key = CurrentKey(1)
          /\ w.cache_data = ret[2].data
          /\ w.created_at = now - tz
          /\ w.data_file_time # ret[1].data.product_data

-----------------------------------------------------------------------------
(* Properties of the cash-flow ledger (specification SpecLedger) *)

RowsOf(unit_name, date, flow_type) ==
    {row \in ledger : SameKey(row, unit_name, date, flow_type)}

OtherType(flow_type) == IF flow_type = "inflow" THEN "outflow" ELSE "inflow"

Signed(flow_type, amount) == IF flow_type = "inflow" THEN amount ELSE 0 - amount

\* C6 - after any sequence of add_cash_flow, delete_cash_flow and
\* delete_all_cash_flows the ledger holds at most one row per
\* (unit, date, flow_type).
C6_OneRowPerKey ==
    \A u \in Units, d \in Dates, t \in FlowTypes : Cardinality(RowsOf(u, d, t)) <= 1

\* a flow was added for a key that already had a row, in a ledger that has
\* other rows as well
C6_Witness ==
    /\ lastOp.op = "add_cash_flow"
    /\ lastOp.returned
    /\ lastOp.before # {}
    /\ Cardinality(ledger) >= 3
    /\ Cardinality(RowsOf(lastOp.unit_name, lastOp.date, lastOp.flow_type)) = 1

\* C7 - replace, not accumulate: once add_cash_flow(u, d, t, a2) has
\* succeeded, whatever row (u, d, t) had before, the ledger has exactly one
\* row for (u, d, t), its amount is a2, and the net flow of (u, d) counts a2
\* alone for that flow type.
C7_ReplaceSemantics ==
    (lastOp.op = "add_cash_flow" /\ lastOp.returned) =>
        /\ \E row \in ledger :
              /\ RowsOf(lastOp.unit_name, lastOp.date, lastOp.flow_type) = {row}
              /\ row.amount = lastOp.amount
        /\ get_cash_flow_by_date(ledger, lastOp.unit_name, lastOp.date) =
              Signed(lastOp.flow_type, lastOp.amount) +
              Signed(OtherType(lastOp.flow_type),
                     SumAmounts(RowsOf(lastOp.unit_name, lastOp.date,
                                       OtherType(lastOp.flow_type))))

\* add_flow(u, d, "inflow", 100) was followed by add_flow(u, d, "inflow", 150)
C7_Witness ==
    /\ lastOp.op = "add_cash_flow"
    /\ lastOp.returned
    /\ lastOp.flow_type = "inflow"
    /\ lastOp.before = {100}
    /\ lastOp.amount = 150
    /\ get_cash_flow_by_date(ledger, lastOp.unit_name, lastOp.date) = 150

-----------------------------------------------------------------------------
(* Properties of the return calculators (specification SpecReturn) *)

\* ((today - yesterday - net_flow) / yesterday) * 100 with
\* net_flow = inflow - outflow
ReturnFormula(today, yesterday, inflow, outflow) ==
    Pct((today - yesterday - (inflow - outflow)) * 100, yesterday)

\* C5 - return formula: for every yesterday_asset > 0 the return produced
\* by get_product_return_from_holdings is
\* ((today - yesterday - net_flow) / yesterday) * 100.
C5_ReturnFormula ==
    (out.path = "get_product_return_from_holdings" /\ inp.yesterday > 0) =>
        out.value = ReturnFormula(inp.today, inp.yesterday, inp.inflow, inp.outflow)

-----------------------------------------------------------------------------
(* Specification SpecSlot: the time-slot label and the cache key, computed *)
(* by two calls between which the clock may advance                        *)

MaxAdvance == 40

\* Monday, Friday, Saturday and Sunday
SlotDays == {0, 4, 5, 6}
\* 09:00, 09:28, 14:44, 14:58 and 23:30
SlotClock == {9 * HourMinutes, 9 * HourMinutes + 28, 14 * HourMinutes + 44,
              14 * HourMinutes + 58, 23 * HourMinutes + 30}
SlotProducts == {"P1", "P2"}

InitSlot ==
    /\ \E d \in SlotDays, c \in SlotClock :
          inp = [given |-> TRUE, start |-> d * DayMinutes + c,
                 now |-> d * DayMinutes + c]
    /\ out = NoOutput
    /\ InitLedgerIdle
    /\ InitCacheIdle

\* the head of should_use_cache and of the save branch, lines 117-118 and
\* 246-247: time_slot = get_time_slot(); cache_key = get_cache_key(...)
SlotCall ==
    /\ \E product_name \in SlotProducts, data_source \in DATA_PATHS :
          LET time_slot == get_time_slot(inp.now)
              c == [at |-> inp.now, product_name |-> product_name,
                    data_source |-> data_source, time_slot |-> time_slot,
                    cache_key |-> get_cache_key(product_name, data_source, time_slot)]
          IN  \/ /\ out = NoOutput
                 /\ out' = [path |-> "get_time_slot", calls |-> <<c>>]
              \/ /\ out # NoOutput
                 /\ Len(out.calls) = 1
                 /\ out' = [out EXCEPT !.calls = Append(out.calls, c)]
    /\ UNCHANGED <<inp, cacheVars, ledgerVars>>

\* the wall clock moves between the two calls
SlotTick ==
    /\ out # NoOutput
    /\ Len(out.calls) = 1
    /\ inp.now = inp.start
    /\ \E d \in 1 .. MaxAdvance : inp' = [inp EXCEPT !.now = inp.now + d]
    /\ UNCHANGED <<out, cacheVars, ledgerVars>>

NextSlot ==
    \/ SlotCall
    \/ SlotTick

SpecSlot == InitSlot /\ [][NextSlot]_vars

(* Properties of the time slot (specification SpecSlot) *)

\* Mon-Fri, 09:30-15:00 inclusive, written out on its own
DocumentedTradingHours(t) ==
    /\ (t \div DayMinutes) % 7 \in 0 .. 4
    /\ t % DayMinutes >= 9 * 60 + 30
    /\ t % DayMinutes <= 15 * 60

\* the greatest multiple of the width (15 minutes in trading hours, 60
\* otherwise) that is not after t
DocumentedSlotStart(t) ==
    LET width == IF DocumentedTradingHours(t) THEN 15 ELSE 60
    IN  CHOOSE b \in (t - width + 1) .. t : b % width = 0

\* '%Y-%m-%d_%H:%M' of a minute count
DocumentedLabel(b) == <<b \div 1440, (b % 1440) \div 60, b % 60>>

\* C11 - the label of every call is the current time floored to the
\* 15-minute boundary in trading hours (Mon-Fri 09:30-15:00 inclusive) and to
\* the hour otherwise; two calls that fall in the same slot get the same
\* label, and with the same unit and source the same cache key.
C11_TimeSlotLabel ==
    out # NoOutput =>
        /\ \A i \in 1 .. Len(out.calls) :
              out.calls[i].time_slot = DocumentedLabel(DocumentedSlotStart(out.calls[i].at))
        /\ \A i \in 1 .. Len(out.calls) : \A j \in 1 .. Len(out.calls) :
              DocumentedSlotStart(out.calls[i].at) = DocumentedSlotStart(out.calls[j].at)
              => /\ out.calls[i].time_slot = out.calls[j].time_slot
                 /\ (/\ out.calls[i].product_name = out.calls[j].product_name
                     /\ out.calls[i].data_source = out.calls[j].data_source)
                    => out.calls[i].cache_key = out.calls[j].cache_key

\* two calls at different minutes of one 15-minute trading slot, for the
\* same unit and source, carry the same label and key
C11_Witness ==
    /\ out # NoOutput
    /\ Len(out.calls) = 2
    /\ out.calls[1].at # out.calls[2].at
    /\ DocumentedTradingHours(out.calls[1].at)
    /\ out.calls[1].at % 15 # 0
    /\ DocumentedSlotStart(out.calls[1].at) = DocumentedSlotStart(out.calls[2].at)
    /\ out.calls[1].product_name = out.calls[2].product_name
    /\ out.calls[1].time_slot = out.calls[2].time_slot
    /\ out.calls[1].cache_key = out.calls[2].cache_key

-----------------------------------------------------------------------------
(* Further properties of the cash-flow ledger (specification SpecLedger) *)

\* the rows of a unit on a date, whatever their flow type
RowsOfUnitDate(unit_name, date) ==
    {row \in ledger : row.unit_name = unit_name /\ row.date = date}

\* sum of the inflow amounts minus sum of the outflow amounts of a set of rows
RECURSIVE SignedSum(_)
SignedSum(rows) ==
    IF rows = {} THEN 0
    ELSE LET x == CHOOSE x \in rows : TRUE
         IN  (IF x.flow_type = "inflow" THEN x.amount ELSE 0 - x.amount)
             + SignedSum(rows \ {x})

\* C12 - the net flow returned for (unit, date) is the sum of the inflow
\* amounts minus the sum of the outflow amounts of the rows of exactly that
\* unit and date, 0 when there is no such row; the rows of other units or
\* dates do not contribute.
C12_NetFlow ==
    lastOp.op = "get_cash_flow_by_date" =>
        /\ lastOp.value = SignedSum(RowsOfUnitDate(lastOp.unit_name, lastOp.date))
        /\ RowsOfUnitDate(lastOp.unit_name, lastOp.date) = {} => lastOp.value = 0

\* the queried unit and date have an inflow of 100 and an outflow of 150,
\* the same unit has a row on another date and another unit has one on the
\* same date; the answer is -50
C12_Witness ==
    /\ lastOp.op = "get_cash_flow_by_date"
    /\ \E r1 \in RowsOfUnitDate(lastOp.unit_name, lastOp.date) :
          r1.flow_type = "inflow" /\ r1.amount = 100
    /\ \E r2 \in RowsOfUnitDate(lastOp.unit_name, lastOp.date) :
          r2.flow_type = "outflow" /\ r2.amount = 150
    /\ \E r3 \in ledger : r3.unit_name = lastOp.unit_name /\ r3.date # lastOp.date
    /\ \E r4 \in ledger : r4.unit_name # lastOp.unit_name /\ r4.date = lastOp.date
    /\ lastOp.value = 0 - 50

\* C13 - delete_cash_flow(u, d, t, a) removes the row of (u, d, t) exactly
\* when that row's amount is a; when no row matches all four values the
\* ledger is unchanged, and rows of another unit, date or flow type are
\* unchanged in every case (a call whose statement fails changes nothing).
C13_RemoveFlow ==
    [][lastOp'.op = "delete_cash_flow" =>
          LET u == lastOp'.unit_name
              d == lastOp'.date
              t == lastOp'.flow_type
              a == lastOp'.amount
              matching == {row \in ledger : SameKey(row, u, d, t) /\ row.amount = a}
          IN  /\ {row \in ledger' : ~SameKey(row, u, d, t)} =
                 {row \in ledger : ~SameKey(row, u, d, t)}
              /\ matching = {} => ledger' = ledger
              /\ lastOp'.returned => ledger' = ledger \ matching
              /\ ~lastOp'.returned => ledger' = ledger]_vars

\* a delete with the stored amount removed the row of its key and left the
\* row of the other flow type of the same unit and date, and a third row
C13_Witness ==
    /\ lastOp.op = "delete_cash_flow"
    /\ lastOp.returned
    /\ lastOp.amount \in lastOp.before
    /\ RowsOf(lastOp.unit_name, lastOp.date, lastOp.flow_type) = {}
    /\ RowsOf(lastOp.unit_name, lastOp.date, OtherType(lastOp.flow_type)) # {}
    /\ Cardinality(ledger) >= 2

-----------------------------------------------------------------------------
(* Source locator inside one date folder: realtime_heatmap.py              *)
(*                                                                         *)
(* A file name is the record of its parts: the type prefix, the product    *)
(* identifier between prefix and time ("" when the template has none), the *)
(* embedded time (0 when the text at its place is not a YYYYMMDD-HHMMSS    *)
(* time, so that strptime raises) and the extension.  The prefixes are     *)
(*   "PositionsOld"  unit-asset-account positions export (original)        *)
(*   "PositionsNew"  unit-account-level asset positions export (newer)     *)
(*   "AssetOld"      unit-asset-account asset export (original)            *)
(*   "AssetNew"      unit-account-level asset asset export (newer)         *)
(* and the data sources "live" and "sim".                                  *)

MaxStamp == 2
MaxFolderFiles == 3

DataSources == {"live", "sim"}
Stamps == 0 .. MaxStamp
AssetNames == [prefix : {"AssetOld", "AssetNew"}, pid : {""},
               stamp : Stamps, ext : {".xlsx", ".csv"}]
PositionNames == [prefix : {"PositionsOld", "PositionsNew"}, pid : {"acctA", "acctB"},
                  stamp : Stamps, ext : {".xlsx"}]
FileNames == AssetNames \cup PositionNames

NotFound == [found |-> FALSE]

\* datetime.strptime(time_part, "%Y%m%d-%H%M%S") succeeds
strptime_ok(file) == file.stamp # 0

\* variant: the oldest file is kept
max_by_timestamp_oldest(cands) == {f \in cands : \A g \in cands : g.stamp >= f.stamp}

\* the files of greatest timestamp of a non-empty list; max() and the
\* "file_time > latest_time" loop keep the first of them in os.walk order,
\* which the directory decides
max_by_timestamp(cands) == {f \in cands : \A g \in cands : g.stamp <= f.stamp}

\* get_latest_asset_data_by_folder, lines 1226-1238: the templates accepted
\* for a data source; the time part is what is left of the name once prefix
\* and ".xlsx" are taken away
asset_file_matched(file, data_source) ==
    IF data_source = "sim"
    THEN file.prefix \in {"AssetNew", "AssetOld"} /\ file.ext = ".xlsx"
    ELSE file.prefix = "AssetOld" /\ file.ext = ".xlsx"

\* get_latest_asset_data_by_folder, lines 1240-1246: the list asset_files
asset_files_by_folder(folder, data_source) ==
    {f \in folder : asset_file_matched(f, data_source) /\ f.pid = "" /\ strptime_ok(f)}

\* get_latest_asset_files, lines 1019-1040: the list asset_files of the
\* heatmap's own lookup, with the files whose time parses
asset_files_latest(folder) ==
    {f \in folder : /\ f.prefix = "AssetOld"
                    /\ f.ext \in {".xlsx", ".csv"}
                    /\ f.pid = ""
                    /\ strptime_ok(f)}

\* get_latest_holding_files, lines 396-409: the list all_files
holding_file_matched(file, data_source) ==
    IF data_source = "sim"
    THEN file.prefix \in {"PositionsOld", "AssetNew", "PositionsNew"}
         /\ file.ext \in {".xlsx", ".csv"}
    ELSE file.prefix = "PositionsOld" /\ file.ext \in {".xlsx", ".csv"}

\* get_latest_holding_files, lines 413-455: the dict product_files, as the
\* set of entries; a name with no product part (len(parts) < 2) or with an
\* unparseable time is passed over
product_files(folder, data_source) ==
    {f \in folder : holding_file_matched(f, data_source) /\ f.pid # "" /\ strptime_ok(f)}

(* Specification SpecLocator: a date folder is filled, then searched *)

InitLocator ==
    /\ \E ds \in DataSources : inp = [given |-> TRUE, data_source |-> ds, folder |-> {}]
    /\ out = NoOutput
    /\ InitLedgerIdle
    /\ InitCacheIdle

\* the export job writes one more file into the date folder
AddFile ==
    /\ out = NoOutput
    /\ Cardinality(inp.folder) < MaxFolderFiles
    /\ \E f \in FileNames \ inp.folder : inp' = [inp EXCEPT !.folder = inp.folder \cup {f}]
    /\ UNCHANGED <<out, cacheVars, ledgerVars>>

\* get_latest_asset_data_by_folder(base_path, date_folder, data_source),
\* lines 1214-1259, up to the choice of latest_file
LatestAssetDataByFolder ==
    /\ out = NoOutput
    /\ LET asset_files == asset_files_by_folder(inp.folder, inp.data_source)
       IN  \/ /\ asset_files = {}
              /\ out' = [path |-> "get_latest_asset_data_by_folder", pid |-> "",
                         accepted |-> asset_files, latest_file |-> NotFound]
           \/ \E f \in max_by_timestamp(asset_files) :
                 out' = [path |-> "get_latest_asset_data_by_folder", pid |-> "",
                         accepted |-> asset_files, latest_file |-> f]
    /\ UNCHANGED <<inp, cacheVars, ledgerVars>>

\* get_latest_asset_files(data_source), lines 1019-1042, inside the newest
\* date folder
LatestAssetFiles ==
    /\ out = NoOutput
    /\ LET asset_files == asset_files_latest(inp.folder)
       IN  \/ /\ asset_files = {}
              /\ out' = [path |-> "get_latest_asset_files", pid |-> "",
                         accepted |-> asset_files, latest_file |-> NotFound]
           \/ \E f \in max_by_timestamp(asset_files) :
                 out' = [path |-> "get_latest_asset_files", pid |-> "",
                         accepted |-> asset_files, latest_file |-> f]
    /\ UNCHANGED <<inp, cacheVars, ledgerVars>>

\* get_latest_holding_files(data_source), lines 457-469: the entry of one
\* product identifier in latest_files
LatestHoldingFiles ==
    /\ out = NoOutput
    /\ \E product_id \in {"acctA", "acctB"} :
          LET files_list == {f \in product_files(inp.folder, inp.data_source) :
                                f.pid = product_id}
          IN  \/ /\ files_list = {}
                 /\ out' = [path |-> "get_latest_holding_files", pid |-> product_id,
                            accepted |-> files_list, latest_file |-> NotFound]
              \/ \E f \in max_by_timestamp(files_list) :
                    out' = [path |-> "get_latest_holding_files", pid |-> product_id,
                            accepted |-> files_list, latest_file |-> f]
    /\ UNCHANGED <<inp, cacheVars, ledgerVars>>

\* get_product_return_from_holdings(product_name, data_source, db), lines
\* 1123 and 1128: the asset export of a date folder is looked up with
\* get_latest_asset_data_by_folder(base_path, folder), the data source left
\* at the parameter's default
ReturnAssetLookup ==
    /\ out = NoOutput
    /\ LET asset_files == asset_files_by_folder(inp.folder, "live")
       IN  \/ /\ asset_files = {}
              /\ out' = [path |-> "get_product_return_from_holdings", pid |-> "",
                         accepted |-> asset_files, latest_file |-> NotFound]
           \/ \E f \in max_by_timestamp(asset_files) :
                 out' = [path |-> "get_product_return_from_holdings", pid |-> "",
                         accepted |-> asset_files, latest_file |-> f]
    /\ UNCHANGED <<inp, cacheVars, ledgerVars>>

NextLocator ==
    \/ AddFile
    \/ LatestAssetDataByFolder
    \/ LatestAssetFiles
    \/ LatestHoldingFiles
    \/ ReturnAssetLookup

SpecLocator == InitLocator /\ [][NextLocator]_vars

(* Properties of the locator (specification SpecLocator) *)

\* the templates a lookup accepts, written out per lookup and data source:
\* prefix, extension, whether a product identifier stands before the time
DocumentedMatch(path, data_source, pid, f) ==
    /\ f.stamp >= 1
    /\ f.pid = pid
    /\ IF path = "get_latest_asset_data_by_folder"
       THEN /\ f.ext = ".xlsx"
            /\ \/ f.prefix = "AssetOld"
               \/ (data_source = "sim" /\ f.prefix = "AssetNew")
       ELSE IF path = "get_latest_asset_files"
       THEN f.prefix = "AssetOld"
       ELSE \/ f.prefix = "PositionsOld"
            \/ (data_source = "sim" /\ f.prefix = "PositionsNew")

LocatorPaths ==
    {"get_latest_asset_data_by_folder", "get_latest_asset_files", "get_latest_holding_files"}

\* C14 - in a date folder each locator returns a file of the greatest
\* embedded timestamp among the files that match a template it accepts for
\* the requested type (for the positions export: the type and the product
\* identifier); it returns nothing only when no file matches, and never a
\* file older than another matching file.
C14_LatestFile ==
    out.path \in LocatorPaths =>
        LET matching == {f \in inp.folder :
                            DocumentedMatch(out.path, inp.data_source, out.pid, f)}
        IN  /\ matching = {} <=> out.latest_file = NotFound
            /\ matching # {} =>
                  /\ out.latest_file \in matching
                  /\ \A g \in matching : g.stamp <= out.latest_file.stamp

\* a lookup returned the newest of two matching files of different times,
\* in a folder that also holds a file of another type or product that is at
\* least as new
C14_Witness ==
    /\ out.path \in LocatorPaths
    /\ out.latest_file # NotFound
    /\ \E g \in inp.folder :
          /\ DocumentedMatch(out.path, inp.data_source, out.pid, g)
          /\ g.stamp < out.latest_file.stamp
    /\ \E h \in inp.folder :
          /\ ~DocumentedMatch(out.path, inp.data_source, out.pid, h)
          /\ h.stamp >= out.latest_file.stamp

\* C15 - every accepted naming scheme is recognised when the asset export is
\* located for the return computation: a date folder whose only asset export
\* carries one of the data source's accepted prefixes (for the simulation
\* source the original and the newer one) yields that file, not "no data".
C15_AllSchemesRecognised ==
    out.path = "get_product_return_from_holdings" =>
        \A f \in inp.folder :
            (/\ {g \in inp.folder : g.prefix \in {"AssetOld", "AssetNew"}} = {f}
             /\ f.ext = ".xlsx"
             /\ f.stamp >= 1
             /\ \/ f.prefix = "AssetOld"
                \/ (inp.data_source = "sim" /\ f.prefix = "AssetNew"))
            => out.latest_file = f

-----------------------------------------------------------------------------
(* Asset aggregation: product_returns.py and futures_data_reader.py        *)
(*                                                                         *)
(* A source file is the sequence of its data rows, a row being the unit's  *)
(* name and one monetary value (the total asset of the equity export, the  *)
(* equity of the futures export; the other monetary columns of a row are   *)
(* carried through the same statements).  A file that is not there has no  *)
(* rows and exists = FALSE.                                                *)

MaxRows == 2
MaxAmount == 2

RowUnits == {"U1", "U2"}
SourceRows == [name : RowUnits, value : 1 .. MaxAmount]
SourceFiles ==
    {[exists |-> FALSE, rows |-> <<>>]} \cup
    {[exists |-> TRUE, rows |-> s] : s \in UNION {[1 .. k -> SourceRows] : k \in 0 .. MaxRows}}

RECURSIVE SumValues(_)
SumValues(rows) ==
    IF rows = <<>> THEN 0 ELSE Head(rows).value + SumValues(Tail(rows))

RowsNamed(rows, name) == SelectSeq(rows, LAMBDA row : row.name = name)

NamesOf(rows) == {rows[i].name : i \in 1 .. Len(rows)}

\* result_df.groupby(name).agg({value: 'sum'}).reset_index(), the last step
\* of read_total_assets_from_holding_file and read_futures_assets_from_file
groupby_sum(rows) ==
    {[name |-> u, total |-> SumValues(RowsNamed(rows, u))] : u \in NamesOf(rows)}

\* read_total_assets_from_holding_file / read_futures_assets_from_file on a
\* located file; get_latest_asset_data_by_folder and
\* get_latest_futures_data_by_date return None when nothing is located,
\* which combine_assets_and_futures turns into an empty frame
read_grouped(file) == IF file.exists THEN groupby_sum(file.rows) ELSE {}

\* variant: how='inner'
combine_assets_and_futures_inner(assets_data, futures_data) ==
    {[name |-> a.name, real_total_asset |-> a.total + f.total] :
        <<a, f>> \in {p \in assets_data \X futures_data : p[1].name = p[2].name}}

\* combine_assets_and_futures, lines 249-266: pd.merge(..., how='outer') on
\* the name, fillna(0), and the sum of the columns (the custody frame is
\* always the empty default here and adds 0)
combine_assets_and_futures(assets_data, futures_data) ==
    LET both == {p \in assets_data \X futures_data : p[1].name = p[2].name}
        left_only == {a \in assets_data : \A f \in futures_data : f.name # a.name}
        right_only == {f \in futures_data : \A a \in assets_data : a.name # f.name}
    IN  {[name |-> p[1].name, real_total_asset |-> p[1].total + p[2].total + 0] : p \in both}
        \cup {[name |-> a.name, real_total_asset |-> a.total + 0 + 0] : a \in left_only}
        \cup {[name |-> f.name, real_total_asset |-> 0 + f.total + 0] : f \in right_only}

NoUnitData ==
    [has_futures |-> FALSE, futures_total_asset |-> 0,
     has_equity |-> FALSE, equity_total_asset |-> 0]

\* get_latest_data_by_units, lines 206-220: the loop over the futures rows;
\* units_data[unit_name].update({...}) overwrites the values of the entry
RECURSIVE update_futures(_, _)
update_futures(units_data, rows) ==
    IF rows = <<>> THEN units_data
    ELSE LET row == Head(rows)
             old == IF row.name \in DOMAIN units_data THEN units_data[row.name]
                    ELSE NoUnitData
             new == [old EXCEPT !.has_futures = TRUE, !.futures_total_asset = row.value]
         IN  update_futures([u \in DOMAIN units_data \cup {row.name} |->
                                IF u = row.name THEN new ELSE units_data[u]],
                            Tail(rows))

\* get_latest_data_by_units, lines 228-242: the loop over the equity rows
RECURSIVE update_stocks(_, _)
update_stocks(units_data, rows) ==
    IF rows = <<>> THEN units_data
    ELSE LET row == Head(rows)
             old == IF row.name \in DOMAIN units_data THEN units_data[row.name]
                    ELSE NoUnitData
             new == [old EXCEPT !.has_equity = TRUE, !.equity_total_asset = row.value]
         IN  update_stocks([u \in DOMAIN units_data \cup {row.name} |->
                               IF u = row.name THEN new ELSE units_data[u]],
                           Tail(rows))

\* get_latest_data_by_units, lines 194-250, for one target time: the entries
\* of units_data with asset_summary = data.get('equity_total_asset', 0) +
\* data.get('futures_total_asset', 0)
get_latest_data_by_units(futures_file, stocks_file) ==
    LET after_futures == update_futures(<<>>, futures_file.rows)
        units_data == update_stocks(after_futures, stocks_file.rows)
    IN  {[name |-> u,
          has_equity |-> units_data[u].has_equity,
          equity_total_asset |-> units_data[u].equity_total_asset,
          has_futures |-> units_data[u].has_futures,
          futures_total_asset |-> units_data[u].futures_total_asset,
          asset_summary |-> (IF units_data[u].has_equity
                             THEN units_data[u].equity_total_asset ELSE 0)
                            + (IF units_data[u].has_futures
                               THEN units_data[u].futures_total_asset ELSE 0)] :
         u \in DOMAIN units_data}

(* Specification SpecAggregate: an equity file and a futures file are read *)
(* and joined                                                              *)

InitAggregate ==
    /\ \E e \in SourceFiles, f \in SourceFiles :
          inp = [given |-> TRUE, equity |-> e, futures |-> f]
    /\ out = NoOutput
    /\ InitLedgerIdle
    /\ InitCacheIdle

\* get_product_return_from_holdings, lines 1123-1125: both files of a date
\* are read and combined
CombineAssetsAndFutures ==
    /\ out = NoOutput
    /\ out' = [path |-> "combine_assets_and_futures",
               rows |-> combine_assets_and_futures(read_grouped(inp.equity),
                                                   read_grouped(inp.futures))]
    /\ UNCHANGED <<inp, cacheVars, ledgerVars>>

\* FuturesDataReader.get_latest_data_by_units for one target time
LatestDataByUnits ==
    /\ out = NoOutput
    /\ out' = [path |-> "get_latest_data_by_units",
               rows |-> get_latest_data_by_units(inp.futures, inp.equity)]
    /\ UNCHANGED <<inp, cacheVars, ledgerVars>>

NextAggregate ==
    \/ CombineAssetsAndFutures
    \/ LatestDataByUnits

SpecAggregate == InitAggregate /\ [][NextAggregate]_vars

(* Properties of the aggregation (specification SpecAggregate) *)

AggregatePaths == {"combine_assets_and_futures", "get_latest_data_by_units"}

\* the sum of the values of the rows of a file that carry the name
TotalOf(file, name) == SumValues(RowsNamed(file.rows, name))

HasRow(file, name) == \E i \in 1 .. Len(file.rows) : file.rows[i].name = name

\* C16 - outer join by unit name: every unit with an equity row or a
\* futures row appears exactly once in the result, no other unit appears,
\* and its total asset is its equity total (0 without an equity row) plus
\* its futures total (0 without a futures row).
C16_OuterJoin ==
    out.path \in AggregatePaths =>
        /\ {row.name : row \in out.rows} = NamesOf(inp.equity.rows) \cup NamesOf(inp.futures.rows)
        /\ \A r1 \in out.rows : \A r2 \in out.rows : r1.name = r2.name => r1 = r2
        /\ out.path = "combine_assets_and_futures" =>
              \A row \in out.rows :
                  row.real_total_asset =
                      TotalOf(inp.equity, row.name) + TotalOf(inp.futures, row.name)
        /\ out.path = "get_latest_data_by_units" =>
              \A row \in out.rows :
                  /\ row.has_equity = HasRow(inp.equity, row.name)
                  /\ row.has_futures = HasRow(inp.futures, row.name)
                  /\ row.asset_summary =
                        (IF row.has_equity THEN row.equity_total_asset ELSE 0)
                        + (IF row.has_futures THEN row.futures_total_asset ELSE 0)

\* one unit has only an equity row, another only a futures row, and both
\* are in the combined result with the other side counted as 0
C16_Witness ==
    /\ out.path = "combine_assets_and_futures"
    /\ \E u \in RowUnits, v \in RowUnits :
          /\ HasRow(inp.equity, u) /\ ~HasRow(inp.futures, u)
          /\ HasRow(inp.futures, v) /\ ~HasRow(inp.equity, v)
          /\ \E ru \in out.rows : ru.name = u /\ ru.real_total_asset = TotalOf(inp.equity, u)
          /\ \E rv \in out.rows : rv.name = v /\ rv.real_total_asset = TotalOf(inp.futures, v)

\* C17 - when a unit has several rows in one source file, the monetary
\* fields of its snapshot are the sums over all those rows.
C17_DuplicateRowsSummed ==
    /\ out.path = "combine_assets_and_futures" =>
          \A row \in out.rows :
              row.real_total_asset =
                  TotalOf(inp.equity, row.name) + TotalOf(inp.futures, row.name)
    /\ out.path = "get_latest_data_by_units" =>
          \A row \in out.rows :
              /\ row.has_equity => row.equity_total_asset = TotalOf(inp.equity, row.name)
              /\ row.has_futures => row.futures_total_asset = TotalOf(inp.futures, row.name)

-----------------------------------------------------------------------------
(* Files by time bucket: futures_data_reader.py                            *)
(*                                                                         *)
(* A file is its kind ("futures": futures asset export in the futures      *)
(* directory, "stocks": equity asset export in a date folder), its date    *)
(* and its embedded time HHMMSS read as a number.  An equity export lies   *)
(* in the folder of its own date, so the folder name the reader sorts by   *)
(* is the date of the file.                                                *)

MaxBucketFiles == 3
MaxBucketDate == 2

\* "113000" and "150000", the default target_times of get_latest_data_by_units
TargetTimes == {"113000", "150000"}
BucketClock == {112959, 113000, 113059, 145959, 153000, 160000}
BucketFiles == [kind : {"futures", "stocks"}, date : 1 .. MaxBucketDate, time : BucketClock]

\* variant: every file passes
in_target_time_any(time_str, target_time) == TRUE

\* time_str.startswith("1130") if target_time == "113000" else
\* time_str.startswith("15"), on the six digits of the time
in_target_time(time_str, target_time) ==
    IF target_time = "113000" THEN time_str \div 100 = 1130
    ELSE time_str \div 10000 = 15

\* get_futures_files_by_time, lines 25-43: target_files
get_futures_files_by_time(fs, target_time) ==
    {f \in fs : f.kind = "futures" /\ in_target_time(f.time, target_time)}

\* get_stocks_files_by_time, lines 99-126: all_files (the folders searched
\* are the five newest; the model has fewer)
get_stocks_files_by_time(fs, target_time) ==
    {f \in fs : f.kind = "stocks" /\ in_target_time(f.time, target_time)}

\* sorted(..., key=datetime, reverse=True)[0], or nothing for an empty list
first_by_datetime(target_files) ==
    IF target_files = {} THEN NotFound
    ELSE CHOOSE f \in target_files :
            \A g \in target_files :
                g.date < f.date \/ (g.date = f.date /\ g.time <= f.time)

(* Specification SpecBucket: files are exported, then the files of a target *)
(* time are looked up                                                       *)

InitBucket ==
    /\ inp = [given |-> TRUE, files |-> {}]
    /\ out = NoOutput
    /\ InitLedgerIdle
    /\ InitCacheIdle

ExportFile ==
    /\ out = NoOutput
    /\ Cardinality(inp.files) < MaxBucketFiles
    /\ \E f \in BucketFiles \ inp.files : inp' = [inp EXCEPT !.files = inp.files \cup {f}]
    /\ UNCHANGED <<out, cacheVars, ledgerVars>>

\* get_latest_data_by_units, lines 186-199 and 223-225: for one target time
\* the two lists are built and the first entry of each is the file read
FilesByTime ==
    /\ out = NoOutput
    /\ \E target_time \in TargetTimes :
          out' = [path |-> "get_files_by_time", target_time |-> target_time,
                  latest_futures |-> first_by_datetime(
                                         get_futures_files_by_time(inp.files, target_time)),
                  latest_stocks |-> first_by_datetime(
                                        get_stocks_files_by_time(inp.files, target_time))]
    /\ UNCHANGED <<inp, cacheVars, ledgerVars>>

NextBucket ==
    \/ ExportFile
    \/ FilesByTime

SpecBucket == InitBucket /\ [][NextBucket]_vars

(* Properties of the time buckets (specification SpecBucket) *)

\* midday: the minute 11:30; close: the hour 15
DocumentedBucket(target_time, time) ==
    LET hour == time \div 10000
        minute == (time \div 100) % 100
    IN  IF target_time = "113000" THEN hour = 11 /\ minute = 30 ELSE hour = 15

\* file is the latest of the files of its kind whose time is in the bucket
LatestInBucket(file, kind, target_time) ==
    LET inBucket == {g \in inp.files : g.kind = kind /\ DocumentedBucket(target_time, g.time)}
    IN  IF inBucket = {} THEN file = NotFound
        ELSE /\ file \in inBucket
             /\ \A g \in inBucket : g.date < file.date \/ (g.date = file.date /\ g.time <= file.time)

-----------------------------------------------------------------------------
(* Batch update of the holdings: holdings_updater.py                       *)
(*                                                                         *)
(* The batch is the list of the positions files found for the target time, *)
(* each with the date folder it lies in and whether its header has the     *)
(* three required columns; db_ok tells whether the database update of a    *)
(* date succeeds.                                                          *)

MaxBatchFiles == 3

BatchDates == {"20250707", "20250708"}
BatchFile == [date : BatchDates, schema_ok : BOOLEAN]
Batches == UNION {[1 .. n -> BatchFile] : n \in 1 .. MaxBatchFiles}

\* read_holdings_file, lines 99-101 and 119: a dict with the key "error",
\* whose text names the file, when a required column is missing, and the
\* data otherwise
read_holdings_file(batch, i) ==
    IF batch[i].schema_ok THEN [has_error |-> FALSE, file |-> i]
    ELSE [has_error |-> TRUE, file |-> i]

\* update_holdings_from_source, lines 218-223: the frames of a date whose
\* read gave no error; an error dict is dropped
date_holdings(batch, date_str) ==
    {i \in DOMAIN batch : batch[i].date = date_str /\ ~read_holdings_file(batch, i).has_error}

\* get_all_holdings_files, lines 49-63: the dates that have target files
date_files(batch) == {batch[i].date : i \in DOMAIN batch}

\* update_holdings_from_source, lines 210-250
update_holdings_from_source(batch, db_ok) ==
    [success |-> TRUE,
     updated_dates |-> {d \in date_files(batch) : date_holdings(batch, d) # {} /\ db_ok},
     failed_dates |->
        {[date |-> d, error |-> "database update failed"] :
            d \in {e \in date_files(batch) : date_holdings(batch, e) # {} /\ ~db_ok}}
        \cup
        {[date |-> d, error |-> "all files failed to read"] :
            d \in {e \in date_files(batch) : date_holdings(batch, e) = {}}}]

(* Specification SpecBatch: one batch update *)

InitBatch ==
    /\ \E b \in Batches, ok \in BOOLEAN :
          inp = [given |-> TRUE, batch |-> b, db_ok |-> ok]
    /\ out = NoOutput
    /\ InitLedgerIdle
    /\ InitCacheIdle

\* update_holdings_from_source(db, data_source, target_time); an exception
\* inside the loop is caught per date, one outside it gives an error dict
UpdateHoldingsFromSource ==
    /\ out = NoOutput
    /\ \E raised \in BOOLEAN :
          out' = [path |-> "update_holdings_from_source",
                  escaped |-> FALSE,
                  result |-> IF raised
                             THEN [success |-> FALSE, updated_dates |-> {},
                                   failed_dates |-> {}]
                             ELSE update_holdings_from_source(inp.batch, inp.db_ok)]
    /\ UNCHANGED <<inp, cacheVars, ledgerVars>>

\* calculate_product_data_realtime, lines 149-181: the located files are
\* read one by one; a file that read_holding_file gives back empty is passed
\* over, and the payload carries no list of failures
CalculateFromFiles ==
    /\ out = NoOutput
    /\ out' = [path |-> "calculate_product_data_realtime",
               escaped |-> FALSE,
               result |-> [success |-> TRUE,
                           updated_dates |-> {inp.batch[i].date :
                                                 i \in {j \in DOMAIN inp.batch :
                                                           inp.batch[j].schema_ok}},
                           failed_dates |-> {}]]
    /\ UNCHANGED <<inp, cacheVars, ledgerVars>>

NextBatch ==
    \/ UpdateHoldingsFromSource
    \/ CalculateFromFiles

SpecBatch == InitBatch /\ [][NextBatch]_vars

(* Properties of the batch update (specification SpecBatch) *)

\* C19 - partial-failure tolerance: in a batch that completes, every file
\* that was read and stored is reported as a success, every file that
\* failed schema matching is named among the failures with a reason (here:
\* at least by its date), and no exception escapes to the caller.
C19_PartialFailure ==
    (out.path = "update_holdings_from_source" /\ out.result.success) =>
        /\ ~out.escaped
        /\ \A i \in DOMAIN inp.batch :
              (inp.batch[i].schema_ok /\ inp.db_ok)
              => inp.batch[i].date \in out.result.updated_dates
        /\ \A i \in DOMAIN inp.batch :
              ~inp.batch[i].schema_ok
              => \E e \in out.result.failed_dates : e.date = inp.batch[i].date

-----------------------------------------------------------------------------
(* Header matching of the asset readers: product_returns.py,               *)
(* realtime_heatmap.py, ruixing_data_reader.py                             *)
(*                                                                         *)
(* A header is the sequence of its characters, each written by its pinyin  *)
(* syllable; "x in col" is the test for a contiguous run of characters.    *)

MaxCols == 3

\* "total asset"
TotalAssetHeader == <<"zong", "zi", "chan">>
\* "yesterday's total asset"
PrevTotalAssetHeader == <<"zuo", "ri", "zong", "zi", "chan">>
\* "product name"
ProductNameHeader == <<"chan", "pin", "ming", "cheng">>
\* "profit of the day"
DailyProfitHeader == <<"dang", "ri", "ying", "kui">>
\* "unit name"
UnitNameHeader == <<"dan", "yuan", "ming", "cheng">>

Headers == {TotalAssetHeader, PrevTotalAssetHeader, ProductNameHeader,
            DailyProfitHeader, UnitNameHeader}

\* df.columns: distinct headers in some order
HeaderLists ==
    {cols \in UNION {[1 .. n -> Headers] : n \in 0 .. MaxCols} :
        \A i \in DOMAIN cols : \A j \in DOMAIN cols : cols[i] = cols[j] => i = j}

NoColumn == <<>>

\* text in col
Contains(col, text) ==
    \E i \in 1 .. (Len(col) - Len(text) + 1) : SubSeq(col, i, i + Len(text) - 1) = text

\* the value a variable holds after a loop that assigns it at every column
\* whose index is in hits: the last such column, or None
LastMatch(cols, hits) ==
    IF hits = {} THEN NoColumn
    ELSE cols[CHOOSE i \in hits : \A j \in hits : j <= i]

\* the value after a loop that stops at the first column whose index is in
\* hits
FirstMatch(cols, hits) ==
    IF hits = {} THEN NoColumn
    ELSE cols[CHOOSE i \in hits : \A j \in hits : i <= j]

\* read_total_assets_from_holding_file, lines 63-74: the column bound to the
\* total asset, None when either column is missing
read_total_assets_from_holding_file(cols) ==
    LET is_product == {i \in DOMAIN cols : Contains(cols[i], ProductNameHeader)}
        is_asset == {i \in DOMAIN cols \ is_product : cols[i] = TotalAssetHeader}
        product_col == LastMatch(cols, is_product)
        total_asset_col == LastMatch(cols, is_asset)
    IN  IF product_col = NoColumn \/ total_asset_col = NoColumn THEN NoColumn
        ELSE total_asset_col

\* read_asset_file, lines 1057-1071
read_asset_file(cols) ==
    LET is_product == {i \in DOMAIN cols : Contains(cols[i], ProductNameHeader)}
        is_profit == {i \in DOMAIN cols \ is_product : Contains(cols[i], DailyProfitHeader)}
        is_asset == {i \in DOMAIN cols \ (is_product \cup is_profit) :
                        Contains(cols[i], TotalAssetHeader)}
        product_col == LastMatch(cols, is_product)
        profit_col == LastMatch(cols, is_profit)
        asset_col == LastMatch(cols, is_asset)
    IN  IF product_col = NoColumn \/ profit_col = NoColumn \/ asset_col = NoColumn
        THEN NoColumn
        ELSE asset_col

\* read_ruixing_equity_asset, lines 114-126
read_ruixing_equity_asset(cols) ==
    FirstMatch(cols, {i \in DOMAIN cols : Contains(cols[i], TotalAssetHeader)})

(* Specification SpecHeader: each reader binds its total-asset column on a *)
(* header list                                                             *)

InitHeader ==
    /\ \E cols \in HeaderLists : inp = [given |-> TRUE, columns |-> cols]
    /\ out = NoOutput
    /\ InitLedgerIdle
    /\ InitCacheIdle

ReadTotalAssetsFromHoldingFile ==
    /\ out = NoOutput
    /\ out' = [path |-> "read_total_assets_from_holding_file",
               total_asset_col |-> read_total_assets_from_holding_file(inp.columns)]
    /\ UNCHANGED <<inp, cacheVars, ledgerVars>>

ReadAssetFile ==
    /\ out = NoOutput
    /\ out' = [path |-> "read_asset_file",
               total_asset_col |-> read_asset_file(inp.columns)]
    /\ UNCHANGED <<inp, cacheVars, ledgerVars>>

ReadRuixingEquityAsset ==
    /\ out = NoOutput
    /\ out' = [path |-> "read_ruixing_equity_asset",
               total_asset_col |-> read_ruixing_equity_asset(inp.columns)]
    /\ UNCHANGED <<inp, cacheVars, ledgerVars>>

NextHeader ==
    \/ ReadTotalAssetsFromHoldingFile
    \/ ReadAssetFile
    \/ ReadRuixingEquityAsset

SpecHeader == InitHeader /\ [][NextHeader]_vars

(* Properties of the header matching (specification SpecHeader) *)

\* the readers the return computation goes through: the asset export reader
\* of get_product_return_from_holdings and the reader of
\* calculate_ruixing_return
ReturnReaders == {"read_total_assets_from_holding_file", "read_ruixing_equity_asset"}

\* C20 - the total-asset column is only ever bound to a header that is
\* exactly the total-asset header: whatever the header list, a reader used
\* for the return computation that binds a column binds that one, never a
\* header that merely contains it (such as yesterday's total asset).
C20_ExactTotalAssetHeader ==
    (out.path \in ReturnReaders /\ out.total_asset_col # NoColumn) =>
        out.total_asset_col = TotalAssetHeader

-----------------------------------------------------------------------------
(* Monetary values of a snapshot: futures_data_reader.py                   *)
(*                                                                         *)
(* A cell of a source file is a number, a text that is no number, or the   *)
(* empty cell that pandas reads as NaN.                                    *)

MaxCell == 1

Num(n) == [kind |-> "num", v |-> n]
NaN == [kind |-> "nan", v |-> 0]
TextCell == [kind |-> "text", v |-> 0]
Cells == {Num(n) : n \in (0 - 1) .. MaxCell} \cup {NaN, TextCell}

\* pd.to_numeric(col, errors='coerce') followed by fillna(0), lines 167-168
to_numeric_fillna(cell) == IF cell.kind = "num" THEN cell ELSE Num(0)

\* float(x) on a cell: a number or nan goes through, a text raises ValueError
float_raises(cell) == cell.kind = "text"

\* read_stocks_asset_file, lines 163-168: the three numeric columns of a row
read_stocks_asset_file(row) ==
    [total_asset |-> to_numeric_fillna(row.total_asset),
     stock_asset |-> to_numeric_fillna(row.stock_asset),
     bond_asset |-> to_numeric_fillna(row.bond_asset)]

(* Specification SpecSnapshot: one unit with one equity row and one futures *)
(* row is assembled by get_latest_data_by_units                             *)

InitSnapshot ==
    /\ \E ta \in Cells, sa \in Cells, ba \in Cells, fe \in Cells :
          inp = [given |-> TRUE,
                 stocks_row |-> [total_asset |-> ta, stock_asset |-> sa, bond_asset |-> ba],
                 futures_row |-> [customer_equity |-> fe]]
    /\ out = NoOutput
    /\ InitLedgerIdle
    /\ InitCacheIdle

\* get_latest_data_by_units, lines 206-242: float(row.get(...)) of the
\* futures row as read, then of the equity row as read_stocks_asset_file
\* returns it; nothing in the function catches an exception
AssembleSnapshot ==
    /\ out = NoOutput
    /\ LET stocks == read_stocks_asset_file(inp.stocks_row)
       IN  IF float_raises(inp.futures_row.customer_equity)
           THEN out' = [path |-> "get_latest_data_by_units", raised |-> TRUE]
           ELSE out' = [path |-> "get_latest_data_by_units", raised |-> FALSE,
                        futures_total_asset |-> inp.futures_row.customer_equity,
                        equity_total_asset |-> stocks.total_asset,
                        stock_market_value |-> stocks.stock_asset,
                        bond_market_value |-> stocks.bond_asset]
    /\ UNCHANGED <<inp, cacheVars, ledgerVars>>

NextSnapshot ==
    \/ AssembleSnapshot

SpecSnapshot == InitSnapshot /\ [][NextSnapshot]_vars

(* Properties of the snapshot values (specification SpecSnapshot) *)

NonNegative(cell) == cell.kind = "num" /\ cell.v >= 0

\* C21 - every snapshot assembled from source rows has equity_total_asset,
\* futures_total_asset, stock_market_value and bond_market_value >= 0: a row
\* with a negative or unparseable monetary value never reaches a snapshot.
C21_NonNegativeSnapshot ==
    (out.path = "get_latest_data_by_units" /\ ~out.raised) =>
        /\ NonNegative(out.equity_total_asset)
        /\ NonNegative(out.futures_total_asset)
        /\ NonNegative(out.stock_market_value)
        /\ NonNegative(out.bond_market_value)

-----------------------------------------------------------------------------
(* Missing paths: realtime_heatmap.py, product_returns.py                  *)
(*                                                                         *)
(* The data-source root may be absent; when present it holds date folders, *)
(* some of which carry an export file.                                     *)

MaxFolder == 2

FolderDates == 1 .. MaxFolder
Raised == [raised |-> TRUE]
Returned(v) == [raised |-> FALSE, value |-> v]
EmptyList == [kind |-> "list", files |-> {}]

os_path_exists_always(fs) == TRUE

\* os.path.exists(base_path)
os_path_exists(fs) == fs.root_exists

\* os.listdir(base_path): FileNotFoundError when the directory is absent
os_listdir(fs) == IF fs.root_exists THEN Returned(fs.folders) ELSE Raised

\* os.walk(folder_path): yields nothing for an absent directory
os_walk(fs, folder) ==
    IF fs.root_exists /\ folder \in fs.folders /\ folder \in fs.with_file
    THEN {folder} ELSE {}

\* try: body / except: return fallback
try_except(body, fallback) == IF body.raised THEN Returned(fallback) ELSE body

\* The statements after the existence test of the two latest-folder lookups:
\* list the date folders, take the greatest, walk it
latest_folder_body(fs, data_source, fallback, kind) ==
    LET listed == os_listdir(fs)
    IN  IF listed.raised THEN Raised
        ELSE IF listed.value = {} THEN Returned(fallback)
        ELSE LET latest_date == SetMax(listed.value)
             IN  Returned([kind |-> kind, latest_date |-> latest_date,
                           files |-> os_walk(fs, latest_date),
                           data_source |-> data_source])

\* get_latest_holding_files, lines 377-473
holding_files_or_empty(fs, data_source) ==
    try_except(IF ~os_path_exists(fs) THEN Returned(EmptyDict)
               ELSE latest_folder_body(fs, data_source, EmptyDict, "holding_files"), EmptyDict)

\* get_latest_asset_files, lines 1002-1046
asset_file_or_none(fs, data_source) ==
    try_except(IF ~os_path_exists(fs) THEN Returned(NoneResult)
               ELSE LET r == latest_folder_body(fs, data_source, NoneResult, "asset_file")
                    IN  IF ~r.raised /\ r.value # NoneResult /\ r.value.files = {}
                        THEN Returned(NoneResult) ELSE r, NoneResult)

\* get_latest_asset_data_by_folder, lines 1214-1259: no existence test; the
\* walk of an absent folder is empty and a bare except covers the rest
asset_data_or_none(fs, date_folder) ==
    try_except(IF os_walk(fs, date_folder) = {} THEN Returned(NoneResult)
               ELSE Returned([kind |-> "asset_data", latest_date |-> date_folder,
                              files |-> os_walk(fs, date_folder)]), NoneResult)

\* get_latest_holding_files_with_total_assets, product_returns.py lines
\* 11-52: existence test, then os.listdir outside any try
holding_files_with_total_assets(fs) ==
    IF ~os_path_exists(fs) THEN Returned(EmptyList)
    ELSE LET listed == os_listdir(fs)
         IN  IF listed.raised THEN Raised
             ELSE Returned([kind |-> "file_list",
                            files |-> UNION {os_walk(fs, d) : d \in listed.value}])

(* Specification SpecMissing: each locator is called once on a file tree *)

InitMissing ==
    /\ \E root_exists \in BOOLEAN, folders \in SUBSET FolderDates, date_folder \in FolderDates :
         \E with_file \in SUBSET folders, data_source \in DataSources :
          /\ (~root_exists => folders = {})
          /\ inp = [given |-> TRUE, date_folder |-> date_folder,
                    data_source |-> data_source,
                    fs |-> [root_exists |-> root_exists, folders |-> folders,
                            with_file |-> with_file]]
    /\ out = NoOutput
    /\ InitLedgerIdle
    /\ InitCacheIdle

LocateHoldingFiles ==
    /\ out = NoOutput
    /\ out' = [path |-> "get_latest_holding_files", res |-> holding_files_or_empty(inp.fs, inp.data_source)]
    /\ UNCHANGED <<inp, cacheVars, ledgerVars>>

LocateAssetFile ==
    /\ out = NoOutput
    /\ out' = [path |-> "get_latest_asset_files", res |-> asset_file_or_none(inp.fs, inp.data_source)]
    /\ UNCHANGED <<inp, cacheVars, ledgerVars>>

LocateAssetData ==
    /\ out = NoOutput
    /\ out' = [path |-> "get_latest_asset_data_by_folder",
               res |-> asset_data_or_none(inp.fs, inp.date_folder)]
    /\ UNCHANGED <<inp, cacheVars, ledgerVars>>

LocateHoldingFilesWithTotalAssets ==
    /\ out = NoOutput
    /\ out' = [path |-> "get_latest_holding_files_with_total_assets",
               res |-> holding_files_with_total_assets(inp.fs)]
    /\ UNCHANGED <<inp, cacheVars, ledgerVars>>

NextMissing ==
    \/ LocateHoldingFiles
    \/ LocateAssetFile
    \/ LocateAssetData
    \/ LocateHoldingFilesWithTotalAssets

SpecMissing == InitMissing /\ [][NextMissing]_vars

(* Properties of the locators on missing paths (specification SpecMissing) *)

MissingPaths ==
    {"get_latest_holding_files", "get_latest_asset_files",
     "get_latest_asset_data_by_folder", "get_latest_holding_files_with_total_assets"}

NotFoundValues == {EmptyDict, NoneResult, EmptyList}

\* The path the call needs is absent: the root, or for the lookup by folder
\* the date folder it was asked for
PathAbsent ==
    \/ ~inp.fs.root_exists
    \/ out.path = "get_latest_asset_data_by_folder" /\ inp.date_folder \notin inp.fs.folders

\* C22 - when the data-source root or the requested date folder does not
\* exist, a locator returns a not-found value (empty result or None) and
\* raises nothing to its caller.
C22_MissingPathNotFound ==
    (out.path \in MissingPaths /\ PathAbsent) =>
        (~out.res.raised /\ out.res.value \in NotFoundValues)

\* a lookup by folder asked for a date folder that is absent under an
\* existing root that holds another folder with a file, and answered None
C22_Witness ==
    /\ out.path = "get_latest_asset_data_by_folder"
    /\ inp.fs.root_exists
    /\ inp.fs.with_file # {}
    /\ inp.date_folder \notin inp.fs.folders
    /\ out.res = Returned(NoneResult)

-----------------------------------------------------------------------------
(* Purge of old cache entries at start: database.py                        *)

MaxCacheRows == 2

PurgeKeys == 1 .. MaxCacheRows
\* age of an entry when the process starts, in minutes; 0 stands for no entry
PurgeAges == {0, 60, 1000, 1200, 1500, 2000}
PurgeNow == 2 * DayMinutes + 10 * HourMinutes
PurgeTimeZones == TimeZones \cup {0}

\* cleanup_old_cache, lines 1171-1181: cutoff_time is local now - 1 day and
\* is compared with created_at, which SQLite filled in as UTC
cleanup_old_cache(rows, t) ==
    LET cutoff_time == t - DayMinutes
    IN  {r \in rows : ~(r.created_at < cutoff_time)}

\* the table left by earlier runs: each entry was saved by save_cache_data
\* at local time PurgeNow - age on a host with the given offset
RECURSIVE saved_rows(_, _, _)
saved_rows(keys, age, offset) ==
    IF keys = {} THEN {}
    ELSE LET k == CHOOSE x \in keys : TRUE
             rest == saved_rows(keys \ {k}, age, offset)
         IN  IF age[k] = 0 THEN rest
             ELSE save_cache_data(rest, k, "P1", "live", "slot", EmptyDict, 0,
                                  PurgeNow - age[k], offset)

(* Specification SpecPurge: DatabaseManager is constructed over a table *)

InitPurge ==
    /\ \E age \in [PurgeKeys -> PurgeAges], offset \in PurgeTimeZones :
          inp = [given |-> TRUE, now |-> PurgeNow, tz |-> offset,
                 rows |-> saved_rows(PurgeKeys, age, offset)]
    /\ out = NoOutput
    /\ InitLedgerIdle
    /\ InitCacheIdle

\* init_database, lines 327-358: the tables exist already, the purge runs
InitDatabase ==
    /\ out = NoOutput
    /\ out' = [path |-> "init_database", rows |-> cleanup_old_cache(inp.rows, inp.now)]
    /\ UNCHANGED <<inp, cacheVars, ledgerVars>>

NextPurge ==
    \/ InitDatabase

SpecPurge == InitPurge /\ [][NextPurge]_vars

(* Properties of the purge (specification SpecPurge) *)

\* minutes between the creation of an entry and the start of the process
AgeOf(r) == inp.now - (r.created_at + inp.tz)

\* C23 - at process start the purge removes exactly the entries created
\* more than one day before the current time: none of them remains, and
\* every entry created within the last day is still present.
C23_PurgeOlderThanOneDay ==
    out.path = "init_database" =>
        \A r \in inp.rows :
            /\ AgeOf(r) > DayMinutes => r \notin out.rows
            /\ AgeOf(r) < DayMinutes => r \in out.rows

-----------------------------------------------------------------------------
(* The cached payload and its inputs: realtime_heatmap.py                  *)
(*                                                                         *)
(* The payload of calculate_product_data_realtime carries return_rate,     *)
(* which get_product_return_from_holdings computes from the asset export,  *)
(* the futures export and today's rows of the cash-flow ledger.            *)

MaxExports == 2

CoherenceStart == 4 * DayMinutes + 10 * HourMinutes
TodayDate == "2025-07-08"
AssetTotals == {100, 110}
FuturesEquities == {0, 10}
YesterdayTotals == {0, 100}
CoherenceAmounts == {100}

\* get_product_return_from_holdings(product_name, data_source, db), lines
\* 1122-1205: today's total is the asset export plus the futures export,
\* today's flows are the ledger rows of the product dated today
product_return(env, rows, product_name) ==
    LET today_flows == {row \in rows : row.unit_name = product_name /\ row.date = TodayDate}
        total_inflow == SumAmounts({row \in today_flows : row.flow_type = "inflow"})
        total_outflow == SumAmounts({row \in today_flows : row.flow_type = "outflow"})
    IN  get_product_return_from_holdings(env.asset_total + env.futures_equity,
                                         env.yesterday, total_inflow, total_outflow)

\* calculate_product_data_realtime, lines 134-231, with the return_rate of
\* line 195 in the payload
calculate_product_data_with_return(fs, env, rows, product_name, t) ==
    LET base == calculate_product_data_realtime(fs, product_name, t)
    IN  IF base = EmptyDict THEN EmptyDict
        ELSE [return_rate |-> product_return(env, rows, product_name),
              product_data |-> base.product_data,
              calculation_timestamp |-> base.calculation_timestamp]

\* should_use_cache, lines 112-133
should_use_cache(rows, fs, product_name, t) ==
    LET cache_key == get_cache_key(product_name, "live", get_time_slot(t))
        cache_result == get_cache_data(rows, cache_key, t)
    IN  IF cache_result = NoRow THEN [use_cache |-> FALSE, cached_data |-> EmptyDict]
        ELSE IF file_is_newer(get_latest_data_file_time(fs, t), cache_result.data_file_time)
        THEN [use_cache |-> FALSE, cached_data |-> EmptyDict]
        ELSE [use_cache |-> TRUE, cached_data |-> cache_result.cache_data]

(* Specification SpecCoherence: calls of get_product_data_with_cache for   *)
(* one product between arrivals of exports and changes of the ledger       *)

InitCoherence ==
    /\ now = CoherenceStart
    /\ ticks = 0 /\ calls = 0
    /\ tz \in TimeZones
    /\ files = {[pid |-> "acctA", ts |-> CoherenceStart - 1, mtime |-> CoherenceStart - 1,
                 folder |-> CoherenceStart \div DayMinutes, prods |-> Products]}
    /\ cache = {}
    /\ pc = [r \in Requests |-> "idle"]
    /\ prod = [r \in Requests |-> None]
    /\ cres = [r \in Requests |-> NoRow]
    /\ result = [r \in Requests |-> EmptyDict]
    /\ ret = [r \in Requests |-> NoRet]
    /\ InitLedgerIdle
    /\ \E a \in AssetTotals, f \in FuturesEquities, y \in YesterdayTotals :
          inp = [given |-> TRUE, asset_total |-> a, futures_equity |-> f, yesterday |-> y]
    /\ out = NoOutput

\* get_product_data_with_cache, lines 233-252, as one call
GetProductDataWithCache ==
    /\ \E p \in Products, raised \in BOOLEAN, saved \in BOOLEAN :
       LET probe == should_use_cache(cache, files, p, now)
           res == IF raised THEN EmptyDict
                  ELSE calculate_product_data_with_return(files, inp, ledger, p, now)
           time_slot == get_time_slot(now)
           cache_key == get_cache_key(p, "live", time_slot)
       IN  IF probe.use_cache /\ probe.cached_data # EmptyDict
           THEN /\ lastOp' = [op |-> "get_product_data_with_cache", hit |-> TRUE,
                              data |-> probe.cached_data]
                /\ cache' = cache
           ELSE /\ lastOp' = [op |-> "get_product_data_with_cache", hit |-> FALSE,
                              data |-> res]
                /\ cache' = IF should_save(res) /\ saved
                            THEN save_cache_data(cache, cache_key, p, "live", time_slot, res,
                                                 get_latest_data_file_time(files, now), now, tz)
                            ELSE cache
    /\ UNCHANGED <<now, ticks, calls, tz, files, pc, prod, cres, result, ret>>
    /\ UNCHANGED <<ledger, inp, out>>

\* a minute later the export job writes a newer positions export
PositionsExport ==
    /\ ticks < MaxExports
    /\ ticks' = ticks + 1
    /\ now' = now + 1
    /\ files' = files \cup {[pid |-> "acctA", ts |-> now', mtime |-> now',
                             folder |-> now' \div DayMinutes, prods |-> Products]}
    /\ lastOp' = [op |-> "positions_export"]
    /\ UNCHANGED <<calls, tz, cache, pc, prod, cres, result, ret>>
    /\ UNCHANGED <<ledger, inp, out>>

\* a minute later the export job writes a newer asset export into today's
\* folder; get_latest_asset_data_by_folder will read this one
AssetExport ==
    /\ ticks < MaxExports
    /\ ticks' = ticks + 1
    /\ now' = now + 1
    /\ \E a \in AssetTotals \ {inp.asset_total} : inp' = [inp EXCEPT !.asset_total = a]
    /\ lastOp' = [op |-> "asset_export"]
    /\ UNCHANGED <<calls, tz, files, cache, pc, prod, cres, result, ret>>
    /\ UNCHANGED <<ledger, out>>

\* the same for a futures export in the futures directory
FuturesExport ==
    /\ ticks < MaxExports
    /\ ticks' = ticks + 1
    /\ now' = now + 1
    /\ \E f \in FuturesEquities \ {inp.futures_equity} : inp' = [inp EXCEPT !.futures_equity = f]
    /\ lastOp' = [op |-> "futures_export"]
    /\ UNCHANGED <<calls, tz, files, cache, pc, prod, cres, result, ret>>
    /\ UNCHANGED <<ledger, out>>

\* the ledger calls of database.py for the product and today's date
AddTodayFlow ==
    /\ \E p \in Products, t \in FlowTypes, a \in CoherenceAmounts :
          /\ ledger' = add_cash_flow(ledger, p, TodayDate, t, a)
          /\ lastOp' = [op |-> "add_cash_flow", unit_name |-> p, ledger_before |-> ledger]
    /\ UNCHANGED <<cacheVars, returnVars>>

DeleteTodayFlow ==
    /\ \E p \in Products, t \in FlowTypes, a \in CoherenceAmounts :
          /\ ledger' = delete_cash_flow(ledger, p, TodayDate, t, a)
          /\ lastOp' = [op |-> "delete_cash_flow", unit_name |-> p, ledger_before |-> ledger]
    /\ UNCHANGED <<cacheVars, returnVars>>

DeleteAllFlows ==
    /\ \E p \in Products :
          /\ ledger' = delete_all_cash_flows(ledger, p)
          /\ lastOp' = [op |-> "delete_all_cash_flows", unit_name |-> p, ledger_before |-> ledger]
    /\ UNCHANGED <<cacheVars, returnVars>>

NextCoherence ==
    \/ GetProductDataWithCache
    \/ PositionsExport
    \/ AssetExport
    \/ FuturesExport
    \/ AddTodayFlow
    \/ DeleteTodayFlow
    \/ DeleteAllFlows

SpecCoherence == InitCoherence /\ [][NextCoherence]_vars

(* Properties of the cached payload (specification SpecCoherence) *)

LedgerChanges == {"add_cash_flow", "delete_cash_flow", "delete_all_cash_flows"}
InputExports == {"asset_export", "futures_export"}

\* C24 - after add_cash_flow, delete_cash_flow or delete_all_cash_flows has
\* changed today's net flow of a unit, the next get_product_data_with_cache
\* call for it returns no payload whose return_rate was computed from the
\* ledger as it was before the change.
C24_NoStaleLedgerReturn ==
    [][(/\ lastOp.op \in LedgerChanges
        /\ lastOp'.op = "get_product_data_with_cache"
        /\ lastOp'.data # EmptyDict)
       => LET stale == product_return(inp, lastOp.ledger_before, lastOp.unit_name)
              fresh == product_return(inp, ledger, lastOp.unit_name)
          IN  stale # fresh => lastOp'.data.return_rate # stale]_vars

\* C25 - an entry is not served once a newer asset export or futures export
\* has appeared after it was written, even when no newer positions export
\* has appeared.
C25_InputExportInvalidates ==
    [][(lastOp.op \in InputExports /\ lastOp'.op = "get_product_data_with_cache")
       => ~lastOp'.hit]_vars

\* C29 - every payload stored in the cache carries a defined return_rate: a
\* payload whose return calculation returned None is never written to the
\* cache, so never served as a hit.
C29_CachedReturnDefined ==
    \A row \in cache : row.cache_data.return_rate # NoneResult

-----------------------------------------------------------------------------
(* The two realtime return paths compared (specification SpecReturn) *)

\* the divisor of line 1202: yesterday_total_asset - total_outflow + total_inflow
holdings_divisor(yesterday_total_asset, total_inflow, total_outflow) ==
    yesterday_total_asset - total_outflow + total_inflow

\* C26 - the Ruixing path uses the same return logic as the path of all
\* other products: for today_asset > 0, yesterday_asset > 0 and any inflow
\* and outflow, calculate_ruixing_return yields the percentage that
\* get_product_return_from_holdings yields.
C26_RuixingSameReturn ==
    (out.path = "calculate_ruixing_return" /\ inp.today > 0 /\ inp.yesterday > 0) =>
        out.value = get_product_return_from_holdings(
                        inp.today, inp.yesterday, inp.inflow, inp.outflow)

\* C27 - whenever get_product_return_from_holdings returns a percentage,
\* the divisor it used is strictly positive, whatever today's inflow and
\* outflow are for a yesterday_asset > 0.
C27_PositiveDivisor ==
    (out.path = "get_product_return_from_holdings" /\ out.value # NoneResult) =>
        holdings_divisor(inp.yesterday, inp.inflow, inp.outflow) > 0

-----------------------------------------------------------------------------
(* Date keys of the ledger: daily_trading_stats.py, realtime_heatmap.py,   *)
(* futures_data_reader.py                                                  *)
(*                                                                         *)
(* A date text is the sequence of its parts: 2025-07-08 is                 *)
(* <<"2025", "-", "07", "-", "08">> and 20250708 is <<"2025", "07", "08">> *)

KeyUnits == {"U1"}
KeyDays == {[y |-> "2025", m |-> "07", d |-> "07"], [y |-> "2025", m |-> "07", d |-> "08"]}

\* date.strftime('%Y-%m-%d')
strftime_dashed(date) == <<date.y, "-", date.m, "-", date.d>>

\* date.strftime('%Y%m%d'): the name of a date folder and the date part of
\* an export file name
strftime_compact(date) == <<date.y, date.m, date.d>>

\* f"{today_folder[:4]}-{today_folder[4:6]}-{today_folder[6:8]}", line 1159
folder_date_str(folder) == <<folder[1], "-", folder[2], "-", folder[3]>>

\* pd.to_datetime(text).dt.strftime('%Y-%m-%d'), daily_trading_stats.py
\* line 31: both spellings parse to the same day
to_datetime_strftime(text) ==
    IF Len(text) = 3 THEN <<text[1], "-", text[2], "-", text[3]>> ELSE text

\* render_cash_flow_management, lines 784-787: the key add_cash_flow is given
entry_date_key(date) == strftime_dashed(date)

\* get_product_return_from_holdings, lines 1157-1169: today's rows of
\* get_cash_flows_by_unit, inflow minus outflow
realtime_net_flow(rows, unit_name, today_folder) ==
    get_cash_flow_by_date(rows, unit_name, folder_date_str(today_folder))

\* calculate_derived_values, lines 31-48: the stored date of the statistics
\* row, respelled, is the key
recalculation_net_flow(rows, unit_name, stored_date) ==
    get_cash_flow_by_date(rows, unit_name, to_datetime_strftime(stored_date))

\* render_auto_pull_section, lines 163-181: data['date'] is the date part of
\* the export file name (get_futures_files_by_time, lines 32-38)
auto_pull_net_flow(rows, unit_name, file_date) ==
    get_cash_flow_by_date(rows, unit_name, file_date)

(* Specification SpecDateKey: flows are entered through the ledger form    *)
(* and each return computation asks for the net flow of a unit and a day   *)

InitDateKey ==
    /\ inp = NoInput
    /\ out = NoOutput
    /\ InitLedgerIdle
    /\ InitCacheIdle

\* the form of render_cash_flow_management, lines 777-793; st.rerun() after
\* a stored record renders the page anew, what it showed before is gone
EnterCashFlow ==
    /\ \E u \in KeyUnits, day \in KeyDays, t \in FlowTypes, a \in Amounts :
          ledger' = add_cash_flow(ledger, u, entry_date_key(day), t, a)
    /\ out' = NoOutput
    /\ UNCHANGED <<lastOp, inp, cacheVars>>

RealtimeReturnQuery ==
    /\ \E u \in KeyUnits, day \in KeyDays :
          out' = [path |-> "get_product_return_from_holdings", unit_name |-> u, day |-> day,
                  value |-> realtime_net_flow(ledger, u, strftime_compact(day))]
    /\ UNCHANGED <<inp, cacheVars, ledgerVars>>

RecalculationQuery ==
    /\ \E u \in KeyUnits, day \in KeyDays :
       \E stored \in {strftime_dashed(day), strftime_compact(day)} :
          out' = [path |-> "calculate_derived_values", unit_name |-> u, day |-> day,
                  value |-> recalculation_net_flow(ledger, u, stored)]
    /\ UNCHANGED <<inp, cacheVars, ledgerVars>>

AutoPullQuery ==
    /\ \E u \in KeyUnits, day \in KeyDays :
          out' = [path |-> "render_auto_pull_section", unit_name |-> u, day |-> day,
                  value |-> auto_pull_net_flow(ledger, u, strftime_compact(day))]
    /\ UNCHANGED <<inp, cacheVars, ledgerVars>>

NextDateKey ==
    \/ EnterCashFlow
    \/ RealtimeReturnQuery
    \/ RecalculationQuery
    \/ AutoPullQuery

SpecDateKey == InitDateKey /\ [][NextDateKey]_vars

(* Properties of the date keys (specification SpecDateKey) *)

QueryPaths ==
    {"get_product_return_from_holdings", "calculate_derived_values",
     "render_auto_pull_section"}

\* the net flow of the rows the form stored for the unit and the day
EnteredNetFlow(unit_name, day) ==
    SignedSum({row \in ledger : row.unit_name = unit_name /\ row.date = entry_date_key(day)})

\* C28 - a cash flow recorded through the ledger form for unit u on day d is
\* included in every return computation for u on d: the realtime return,
\* the daily-stats recalculation and the automatic pull each look it up
\* under the date key add_cash_flow stored it with.
C28_SameDateKey ==
    out.path \in QueryPaths => out.value = EnteredNetFlow(out.unit_name, out.day)

-----------------------------------------------------------------------------
(* Futures export of a target date: realtime_heatmap.py, product_returns.py *)

MaxFuturesDate == 3
MaxFuturesTime == 2

FuturesDates == 1 .. MaxFuturesDate
\* a futures export named by its embedded date and time of day
FuturesExports == [file_date : FuturesDates, time : 1 .. MaxFuturesTime]

\* max(files, key=lambda x: x['timestamp'])
latest_by_timestamp(fs) ==
    CHOOSE f \in fs : \A g \in fs :
        g.file_date < f.file_date \/ (g.file_date = f.file_date /\ g.time <= f.time)

\* get_latest_futures_data_by_date, lines 1262-1315, for the live source:
\* the file whose sheet is read, or None
get_latest_futures_data_by_date(dir_exists, all_futures_files, target_date) ==
    IF ~dir_exists THEN NotFound
    ELSE IF all_futures_files = {} THEN NotFound
    ELSE IF target_date = SetMax({f.file_date : f \in all_futures_files})
    THEN [found |-> TRUE, file |-> latest_by_timestamp(all_futures_files)]
    ELSE LET target_date_files == {f \in all_futures_files : f.file_date = target_date}
         IN  IF target_date_files = {}
             THEN [found |-> TRUE, file |-> latest_by_timestamp(all_futures_files)]
             ELSE [found |-> TRUE, file |-> latest_by_timestamp(target_date_files)]

\* get_latest_futures_file_by_date, product_returns.py lines 192-246
get_latest_futures_file_by_date(dir_exists, dir_files, target_date) ==
    IF ~dir_exists THEN NotFound
    ELSE LET futures_files == {f \in dir_files : f.file_date = target_date}
             all_futures_files == {f \in dir_files : f.file_date <= target_date}
         IN  IF futures_files # {}
             THEN [found |-> TRUE, file |-> latest_by_timestamp(futures_files)]
             ELSE IF all_futures_files # {}
             THEN [found |-> TRUE, file |-> latest_by_timestamp(all_futures_files)]
             ELSE NotFound

(* Specification SpecFutures: the futures directory holds some exports and *)
(* the export of a target date is asked for                                *)

InitFutures ==
    /\ \E dir_exists \in BOOLEAN, dir_files \in SUBSET FuturesExports, target_date \in FuturesDates :
          /\ (~dir_exists => dir_files = {})
          /\ inp = [given |-> TRUE, dir_exists |-> dir_exists, dir_files |-> dir_files,
                    target_date |-> target_date]
    /\ out = NoOutput
    /\ InitLedgerIdle
    /\ InitCacheIdle

LatestFuturesDataByDate ==
    /\ out = NoOutput
    /\ out' = [path |-> "get_latest_futures_data_by_date",
               res |-> get_latest_futures_data_by_date(inp.dir_exists, inp.dir_files, inp.target_date)]
    /\ UNCHANGED <<inp, cacheVars, ledgerVars>>

LatestFuturesFileByDate ==
    /\ out = NoOutput
    /\ out' = [path |-> "get_latest_futures_file_by_date",
               res |-> get_latest_futures_file_by_date(inp.dir_exists, inp.dir_files, inp.target_date)]
    /\ UNCHANGED <<inp, cacheVars, ledgerVars>>

NextFutures ==
    \/ LatestFuturesDataByDate
    \/ LatestFuturesFileByDate

SpecFutures == InitFutures /\ [][NextFutures]_vars

(* Properties of the futures selection (specification SpecFutures) *)

\* C30 - the futures file get_latest_futures_data_by_date selects for a
\* target date D never has an embedded date later than D, so yesterday's
\* total never includes a futures figure of today or a later day.
C30_NoLaterFuturesFile ==
    (out.path = "get_latest_futures_data_by_date" /\ out.res.found) =>
        out.res.file.file_date <= inp.target_date

====
